---- MODULE Spec2Model ----
(***************************************************************************)
(* Model of the hydraulic calculation engine of src/App/app.py: the vapour *)
(* pressure table, the pipe-segment functions, calculate_hmt_for_scenario  *)
(* and the /api/calcular handler.                                          *)
(*                                                                         *)
(* The numbers of the program are Python floats, and the model computes    *)
(* with them as the program does: + - * / and round are those of IEEE 754  *)
(* binary64, bit for bit, and log10 and ** are those of the C library the  *)
(* program runs on.  Quantities are in the units of the program (m, m/s,   *)
(* m3/s, Pa, Pa.s, kg/m3, degC).                                           *)
(* A dictionary key that may be absent is a sequence: <<>> when absent,    *)
(* <<x>> when present with value x.                                        *)
(* A value the program computes once and keeps in a local variable is      *)
(* bound once, as x \in { e }, and CHOOSE takes the one value that follows *)
(* from it.                                                                *)
(***************************************************************************)
EXTENDS Integers, Sequences, FiniteSets, TLC

VARIABLES
    request,    \* the JSON body of the last POST /api/calcular, or NoData
    response,   \* what the handler returned for it
    locals,     \* the handler's local variables when it returned or raised
    call,       \* the last direct call of a pure function: name and arguments
    result      \* what that call returned

vars == <<request, response, locals, call, result>>

(***************************************************************************)
(* Python floats (IEEE 754 binary64).  A float is sg * (h * 2^28 + l) *    *)
(* 2^e with the 53-bit mantissa h * 2^28 + l in [2^52, 2^53), or zero.     *)
(* The integers of the model are 32 bits wide, so the mantissa is held in  *)
(* two limbs of 28 bits and products are formed from halves of 14 bits.    *)
(***************************************************************************)
Abs(x) == IF x < 0 THEN -x ELSE x

\* The base of a limb and of a half limb.
Limb == 2^28

HalfLimb == 2^14

\* The number of bits of n >= 0.
Bits(n) == IF n = 0 THEN 0 ELSE CHOOSE k \in 1..31 : n \div 2^(k - 1) = 1

\* Pairs <<h, l>> stand for h * 2^28 + l.
PairLt(p, r) == p[1] < r[1] \/ (p[1] = r[1] /\ p[2] < r[2])

PairAdd(p, r) == << p[1] + r[1] + (p[2] + r[2]) \div Limb, (p[2] + r[2]) % Limb >>

\* p - r for p >= r.
PairSub(p, r) == IF p[2] >= r[2] THEN << p[1] - r[1], p[2] - r[2] >>
                 ELSE << p[1] - r[1] - 1, p[2] + Limb - r[2] >>

\* p * 2^k, the product being below 2^59.
RECURSIVE ShL(_, _)
ShL(p, k) ==
    IF k = 0 THEN p
    ELSE IF k >= 28 THEN ShL(<< p[2], 0 >>, k - 28)
    ELSE << p[1] * 2^k + p[2] \div 2^(28 - k), (p[2] % 2^(28 - k)) * 2^k >>

\* p \div 2^k.
ShR(p, k) ==
    IF k >= 59 THEN << 0, 0 >>
    ELSE IF k >= 28 THEN << 0, p[1] \div 2^(k - 28) >>
    ELSE << p[1] \div 2^k, (p[1] % 2^k) * 2^(28 - k) + p[2] \div 2^k >>

\* Whether p % 2^k is not zero.
Lost(p, k) ==
    IF k >= 59 THEN p # << 0, 0 >>
    ELSE IF k >= 28 THEN p[2] # 0 \/ p[1] % 2^(k - 28) # 0
    ELSE p[2] % 2^k # 0

\* The bit of weight 2^i of p.
BitAt(p, i) ==
    IF i >= 59 THEN 0
    ELSE IF i >= 28 THEN (p[1] \div 2^(i - 28)) % 2
    ELSE (p[2] \div 2^i) % 2

\* a * b as a pair, for a, b < 2^28, from the halves a1, a0, b1, b0.
Mul28H(a1, a0, b1, b0) ==
    << a1 * b1 + (a1 * b0 + a0 * b1) \div HalfLimb
         + (((a1 * b0 + a0 * b1) % HalfLimb) * HalfLimb + a0 * b0) \div Limb,
       (((a1 * b0 + a0 * b1) % HalfLimb) * HalfLimb + a0 * b0) % Limb >>

Mul28(a, b) == Mul28H(a \div HalfLimb, a % HalfLimb, b \div HalfLimb, b % HalfLimb)

\* A float from its sign, mantissa and exponent.
Raw(sg, p, e) == [sg |-> sg, h |-> p[1], l |-> p[2], e |-> e, np |-> FALSE]

FZero == Raw(0, << 0, 0 >>, 0)

Mant(x) == << x.h, x.l >>

\* The mantissa p (53 bits), after the increment that rounding up asks for.
RoundUp(sg, p, e) ==
    IF p[2] + 1 < Limb THEN Raw(sg, << p[1], p[2] + 1 >>, e)
    ELSE IF p[1] + 1 < 2^25 THEN Raw(sg, << p[1] + 1, 0 >>, e)
    ELSE Raw(sg, << 2^24, 0 >>, e + 1)

\* Round to nearest, ties to even: the value sg * (p + s) * 2^e, p a pair of
\* n bits (n at most 59) and s a fraction in [0, 1) that is not zero when
\* st holds.
RoundBits(sg, p, e, st, n) ==
    IF n = 0 THEN FZero
    ELSE IF n <= 53 THEN Raw(sg, ShL(p, 53 - n), e - (53 - n))
    ELSE IF BitAt(p, n - 54) = 1
              /\ (st \/ Lost(p, n - 54) \/ BitAt(p, n - 53) = 1)
         THEN RoundUp(sg, ShR(p, n - 53), e + (n - 53))
         ELSE Raw(sg, ShR(p, n - 53), e + (n - 53))

RoundPack(sg, p, e, st) ==
    RoundBits(sg, p, e, st, IF p[1] > 0 THEN 28 + Bits(p[1]) ELSE Bits(p[2]))

\* The sum of the floats with the aligned mantissas pa and pb (three guard
\* bits each, pb shifted to the exponent of pa, st saying that the shift
\* lost bits).
AddAligned(sa, pa, sb, pb, e, st) ==
    IF sa = sb THEN RoundPack(sa, PairAdd(pa, pb), e, st)
    ELSE IF PairLt(pa, pb) THEN RoundPack(sb, PairSub(pb, pa), e, st)
    ELSE IF st THEN RoundPack(sa, PairSub(PairSub(pa, pb), << 0, 1 >>), e, st)
    ELSE RoundPack(sa, PairSub(pa, pb), e, st)

\* a + b for floats that are not zero.
RECURSIVE RawAdd(_, _)
RawAdd(a, b) ==
    IF a.e < b.e THEN RawAdd(b, a)
    ELSE AddAligned(a.sg, ShL(Mant(a), 3), b.sg,
                    ShR(ShL(Mant(b), 3), a.e - b.e), a.e - 3,
                    Lost(ShL(Mant(b), 3), a.e - b.e))

\* The four limbs of a product from its partial products x = ah * bh,
\* y = ah * bl, z = al * bh and v = al * bl: limb 1 and its carry.
MulLimb1(y, z, v) == v[1] + y[2] + z[2]

MulLimb2(x, y, z, v) == x[2] + y[1] + z[1] + MulLimb1(y, z, v) \div Limb

\* The product shifted right by 50 bits, rounded.
MulPack(sg, e, l3, l2, l1, l0) ==
    RoundPack(sg,
              << l3 * 2^6 + l2 \div 2^22, (l2 % 2^22) * 2^6 + l1 \div 2^22 >>,
              e, l1 % 2^22 # 0 \/ l0 # 0)

MulParts(sg, e, x, y, z, v) ==
    MulPack(sg, e, x[1] + MulLimb2(x, y, z, v) \div Limb,
            MulLimb2(x, y, z, v) % Limb, MulLimb1(y, z, v) % Limb, v[2])

\* a * b for floats that are not zero.
RawMul(a, b) ==
    MulParts(a.sg * b.sg, a.e + b.e + 50,
             Mul28(a.h, b.h), Mul28(a.h, b.l), Mul28(a.l, b.h), Mul28(a.l, b.l))

\* (p - r) modulo 2^56, for p and r below 2^56.
PairSubMod(p, r) ==
    IF p[2] >= r[2] THEN << (p[1] - r[1] + Limb) % Limb, p[2] - r[2] >>
    ELSE << (p[1] - r[1] - 1 + Limb) % Limb, p[2] + Limb - r[2] >>

\* Long division in digits of 14 bits: << q, r' >> with q the digit
\* r * 2^13 \div d (r < 2 * d, d a mantissa) and r' the remainder shifted
\* for the digit after it.  The digit is estimated from the leading bits of
\* r and d, at most 3 too low, and corrected with the remainder rem.
RECURSIVE DivFix(_, _, _)
DivFix(q, rem, d) ==
    IF PairLt(rem, d) THEN << q, ShL(rem, 1) >>
    ELSE DivFix(q + 1, PairSub(rem, d), d)

\* The remainder of the estimate q: the low 56 bits of r * 2^13 less those
\* of q * d.
DivTry(r, d, q) ==
    DivFix(q,
           PairSubMod(<< (r[1] % 2^15) * 2^13 + r[2] \div 2^15,
                         (r[2] % 2^15) * 2^13 >>,
                      << (Mul28(q, d[2])[1] + Mul28(q, d[1])[2]) % Limb,
                         Mul28(q, d[2])[2] >>),
           d)

DivDigit(r, d) ==
    DivTry(r, d, (r[1] * 4 + r[2] \div 2^26) \div (d[1] \div 2^11 + 1))

\* The 56 leading bits of the quotient in four digits of 14 bits, rounded.
DivPack(sg, e, d1, d2, d3, d4) ==
    RoundPack(sg, << d1[1] * HalfLimb + d2[1], d3[1] * HalfLimb + d4[1] >>, e,
              d4[2] # << 0, 0 >>)

DivDigit4(sg, e, d, d1, d2, d3) == DivPack(sg, e, d1, d2, d3, DivDigit(d3[2], d))

DivDigit3(sg, e, d, d1, d2) == DivDigit4(sg, e, d, d1, d2, DivDigit(d2[2], d))

DivDigit2(sg, e, d, d1) == DivDigit3(sg, e, d, d1, DivDigit(d1[2], d))

\* a / b for floats that are not zero.
RawDiv(a, b) ==
    DivDigit2(a.sg * b.sg, a.e - b.e - 55, Mant(b), DivDigit(Mant(a), Mant(b)))

\* float(k) of the integer k, Abs(k) < 2^31.
FInt(k) ==
    IF k = 0 THEN FZero
    ELSE RoundPack(IF k < 0 THEN -1 ELSE 1,
                   << Abs(k) \div Limb, Abs(k) % Limb >>, 0, FALSE)

\* -1, 0 or 1 as a < b, a = b or a > b.
RawCmp(a, b) ==
    IF a.sg # b.sg THEN (IF a.sg < b.sg THEN -1 ELSE 1)
    ELSE IF a.sg = 0 THEN 0
    ELSE IF a.e # b.e THEN (IF a.e < b.e THEN -a.sg ELSE a.sg)
    ELSE IF PairLt(Mant(a), Mant(b)) THEN -a.sg
    ELSE IF PairLt(Mant(b), Mant(a)) THEN a.sg ELSE 0

(***************************************************************************)
(* Floats as the program holds them: np says that the value is a numpy     *)
(* float64 (the result of np.log10 and whatever is computed from it), the  *)
(* others are Python floats.  The two differ in round().  Zero has no      *)
(* sign, and the exponent has no bounds: the program's values stay within  *)
(* 1e-300 .. 1e300.                                                        *)
(***************************************************************************)
Flt(x, np) == [x EXCEPT !.np = np]

FNeg(a) == [a EXCEPT !.sg = -a.sg]

FAdd(a, b) ==
    IF a.sg = 0 THEN Flt(b, a.np \/ b.np)
    ELSE IF b.sg = 0 THEN Flt(a, a.np \/ b.np)
    ELSE Flt(RawAdd(a, b), a.np \/ b.np)

FSub(a, b) == FAdd(a, FNeg(b))

FMul(a, b) ==
    IF a.sg = 0 \/ b.sg = 0 THEN Flt(FZero, a.np \/ b.np)
    ELSE Flt(RawMul(a, b), a.np \/ b.np)

\* a / b, b not zero.
FDiv(a, b) ==
    CASE b.sg # 0 ->
        IF a.sg = 0 THEN Flt(FZero, a.np \/ b.np)
        ELSE Flt(RawDiv(a, b), a.np \/ b.np)

\* The float that the decimal k / s parses to.
FDec(k, s) == FDiv(FInt(k), FInt(s))

FLt(a, b) == RawCmp(a, b) < 0

FLe(a, b) == RawCmp(a, b) <= 0

FGt(a, b) == RawCmp(a, b) > 0

FGe(a, b) == RawCmp(a, b) >= 0

FEq(a, b) == RawCmp(a, b) = 0

\* max(a, b) and min(a, b) of Python: the first argument unless the second
\* is strictly beyond it.
FMax(a, b) == IF FGt(b, a) THEN b ELSE a

FMin(a, b) == IF FLt(b, a) THEN b ELSE a

FAbs(a) == [a EXCEPT !.sg = Abs(a.sg)]

\* a * 2^n.
FScale(a, n) == IF a.sg = 0 THEN a ELSE [a EXCEPT !.e = a.e + n]

(***************************************************************************)
(* The fused multiply-add a * b + c: the exact sum, rounded once.  The     *)
(* exact numbers are naturals of 168 bits in six limbs, the least          *)
(* significant first.                                                      *)
(***************************************************************************)
\* The product of two mantissas from its partial products x = ah * bh,
\* y = ah * bl, z = al * bh and v = al * bl.
MulWide(x, y, z, v) ==
    << v[2], MulLimb1(y, z, v) % Limb, MulLimb2(x, y, z, v) % Limb,
       x[1] + MulLimb2(x, y, z, v) \div Limb, 0, 0 >>

\* w * 2^s, the product below 2^168.
WideShL(w, s) ==
    [i \in 1..6 |->
        (IF i - s \div 28 >= 1
         THEN (w[i - s \div 28] % 2^(28 - (s % 28))) * 2^(s % 28) ELSE 0)
          + (IF i - s \div 28 - 1 >= 1
             THEN w[i - s \div 28 - 1] \div 2^(28 - (s % 28)) ELSE 0)]

\* The limbs i .. 6 of x + s * y + c, s = 1 or -1 and c the carry into limb
\* i; the result is not negative.
RECURSIVE WideSum(_, _, _, _, _)
WideSum(x, y, s, i, c) ==
    IF i > 6 THEN << >>
    ELSE << (x[i] + s * y[i] + c + Limb) % Limb >>
           \o WideSum(x, y, s, i + 1, (x[i] + s * y[i] + c + Limb) \div Limb - 1)

\* The number of bits of w.
WideBits(w) ==
    IF \A i \in 1..6 : w[i] = 0 THEN 0
    ELSE CHOOSE n \in { 28 * (t - 1) + Bits(w[t]) :
                          t \in { i \in 1..6 : w[i] # 0
                                                 /\ \A j \in (i + 1)..6 : w[j] = 0 } } : TRUE

\* sg * w * 2^e rounded, w of 28 * q + r + 56 bits: the 56 leading bits
\* are rounded, the bits below them say whether that is exact.
WideTop(sg, w, e, q, r) ==
    RoundBits(sg,
              << w[q + 2] \div 2^r
                   + (IF q + 3 <= 6 THEN (w[q + 3] % 2^r) * 2^(28 - r) ELSE 0),
                 w[q + 1] \div 2^r + (w[q + 2] % 2^r) * 2^(28 - r) >>,
              e + 28 * q + r,
              w[q + 1] % 2^r # 0 \/ \E j \in 1..q : w[j] # 0, 56)

\* sg * w * 2^e rounded to a float.
WideRound(sg, w, e) ==
    IF WideBits(w) <= 56 THEN RoundBits(sg, << w[2], w[1] >>, e, FALSE, WideBits(w))
    ELSE WideTop(sg, w, e, (WideBits(w) - 56) \div 28, (WideBits(w) - 56) % 28)

\* (sp * wp + sc * wc) * 2^e rounded.
FmaSum(sp, wp, sc, wc, e) ==
    IF sp = sc THEN WideRound(sp, WideSum(wp, wc, 1, 1, 0), e)
    ELSE IF \E i \in 1..6 : wp[i] < wc[i] /\ \A j \in (i + 1)..6 : wp[j] = wc[j]
         THEN WideRound(sc, WideSum(wc, wp, -1, 1, 0), e)
         ELSE WideRound(sp, WideSum(wp, wc, -1, 1, 0), e)

\* fma(a, b, c).  The product has 106 bits at most and c has 53: when one of
\* them lies wholly below the last bit of the other, with two bits to spare,
\* it only says on which side of the other the sum is, and any value as
\* small does.
FFma(a, b, c) ==
    IF a.sg = 0 \/ b.sg = 0 THEN Flt(c, a.np \/ b.np \/ c.np)
    ELSE IF c.sg = 0 THEN Flt(RawMul(a, b), a.np \/ b.np \/ c.np)
    ELSE IF c.e - (a.e + b.e) >= 109 THEN Flt(c, a.np \/ b.np \/ c.np)
    ELSE Flt(FmaSum(a.sg * b.sg,
                    WideShL(MulWide(Mul28(a.h, b.h), Mul28(a.h, b.l),
                                    Mul28(a.l, b.h), Mul28(a.l, b.l)),
                            IF c.e - (a.e + b.e) <= -56 THEN 2
                            ELSE IF c.e < a.e + b.e THEN a.e + b.e - c.e ELSE 0),
                    c.sg,
                    IF c.e - (a.e + b.e) <= -56 THEN << 1, 0, 0, 0, 0, 0 >>
                    ELSE WideShL(<< c.l, c.h, 0, 0, 0, 0 >>,
                                 IF c.e > a.e + b.e THEN c.e - (a.e + b.e) ELSE 0),
                    IF c.e - (a.e + b.e) <= -56 THEN a.e + b.e - 2
                    ELSE IF c.e < a.e + b.e THEN c.e ELSE a.e + b.e),
             a.np \/ b.np \/ c.np)

(***************************************************************************)
(* Rounding to an integer, ties to even (rint).                            *)
(***************************************************************************)
\* The integer p + 1 or p as a float.
RintPack(sg, p, up) ==
    RoundPack(sg, IF up THEN PairAdd(p, << 0, 1 >>) ELSE p, 0, FALSE)

\* Rint of a float with 0 < -e: s = -e bits are dropped.
RintBits(a, s) ==
    IF s > 54 THEN FZero
    ELSE RintPack(a.sg, ShR(Mant(a), s),
                  BitAt(Mant(a), s - 1) = 1
                    /\ (Lost(Mant(a), s - 1) \/ BitAt(Mant(a), s) = 1))

FRint(a) == IF a.sg = 0 \/ a.e >= 0 THEN a ELSE Flt(RintBits(a, -a.e), a.np)

(***************************************************************************)
(* round(x, nd) of a Python float: the decimal of nd places nearest to the *)
(* exact binary value of x (ties to even), parsed back.  The mantissa      *)
(* times 10^nd is a number of three limbs t[1], t[2], t[3].                *)
(***************************************************************************)
Times(a, c) ==
    << Mul28(a.h, c)[1] + (Mul28(a.h, c)[2] + Mul28(a.l, c)[1]) \div Limb,
       (Mul28(a.h, c)[2] + Mul28(a.l, c)[1]) % Limb,
       Mul28(a.l, c)[2] >>

\* t \div 2^s, which is below 2^56.
Sh3R(t, s) ==
    IF s >= 56 THEN ShR(<< 0, t[1] >>, s - 56)
    ELSE IF s >= 28 THEN ShR(<< t[1], t[2] >>, s - 28)
    ELSE << t[1] * 2^(28 - s) + t[2] \div 2^s,
            (t[2] % 2^s) * 2^(28 - s) + t[3] \div 2^s >>

\* Whether t % 2^s is not zero.
Lost3(t, s) ==
    IF s >= 56 THEN t[3] # 0 \/ t[2] # 0 \/ Lost(<< 0, t[1] >>, s - 56)
    ELSE IF s >= 28 THEN t[3] # 0 \/ Lost(<< 0, t[2] >>, s - 28)
    ELSE Lost(<< 0, t[3] >>, s)

\* The bit of weight 2^i of t.
Bit3(t, i) ==
    IF i >= 56 THEN BitAt(<< 0, t[1] >>, i - 56)
    ELSE IF i >= 28 THEN BitAt(<< 0, t[2] >>, i - 28)
    ELSE BitAt(<< 0, t[3] >>, i)

\* The decimal n / c, n the integer nearest to t / 2^s.
RoundDec(sg, t, s, c) ==
    IF s > 90 THEN FZero
    ELSE IF RintPack(sg, Sh3R(t, s),
                     Bit3(t, s - 1) = 1
                       /\ (Lost3(t, s - 1) \/ Bit3(t, s) = 1)).sg = 0
    THEN FZero
    ELSE RawDiv(RintPack(sg, Sh3R(t, s),
                         Bit3(t, s - 1) = 1
                           /\ (Lost3(t, s - 1) \/ Bit3(t, s) = 1)),
                FInt(c))

\* round(a, nd) of a Python float, nd = 2 or 4.  A float whose spacing 2^e
\* is above 10^-nd is its own nearest decimal.
PyRound(a, nd) ==
    IF a.sg = 0 \/ a.e >= 0 THEN a
    ELSE IF -a.e <= 30 /\ 2^(-a.e) < 10^nd THEN a
    ELSE RoundDec(a.sg, Times(a, 10^nd), -a.e, 10^nd)

\* round(a, nd) as the type of a has it: of a numpy float64 it is
\* rint(a * 10^nd) / 10^nd.
round(a, nd) ==
    IF a.np THEN FDiv(FRint(FMul(a, FInt(10^nd))), FInt(10^nd))
    ELSE PyRound(a, nd)

\* float(a): the same value as a Python float.
float(a) == [a EXCEPT !.np = FALSE]

(***************************************************************************)
(* log10 and ** of the C library the program runs on: the routines of      *)
(* glibc 2.36 for x86-64 processors with fused multiply-add, operation by  *)
(* operation, for arguments and results in the range of the normal floats. *)
(* The library rounds them to within about a unit in the last place; which *)
(* of the two nearest floats comes out is decided by these operations.     *)
(***************************************************************************)
\* The data of log: ln(2) in two parts, the coefficients of log(1 + r) after
\* r in the interval of a table entry (poly) and near 1 (poly1), and for each
\* of the 128 intervals of [0x1.6p-1, 0x1.6p0) the pair << 1/c, log(c) >> of a
\* point c of it.  A row of a table holds each float as four integers: the
\* sign, the two limbs and the exponent.
LogData ==
    [ln2hi |-> Raw(1, << 23258159, 251279360 >>, -53),
     ln2lo |-> Raw(1, << 32454009, 63399728 >>, -97),
     poly |-> <<
        Raw(-1, << 16777216, 1 >>, -53),
        Raw(1, << 22369621, 89206875 >>, -54),
        Raw(-1, << 33554431, 267077008 >>, -55),
        Raw(1, << 26843954, 82903313 >>, -55),
        Raw(-1, << 22370142, 84330655 >>, -55) >>,
     poly1 |-> <<
        Raw(-1, << 16777216, 0 >>, -53),
        Raw(1, << 22369621, 89478519 >>, -54),
        Raw(-1, << 33554431, 268434891 >>, -55),
        Raw(1, << 26843545, 160816396 >>, -55),
        Raw(-1, << 22369621, 90654119 >>, -55),
        Raw(1, << 19173962, 54844976 >>, -55),
        Raw(-1, << 33554426, 71449957 >>, -56),
        Raw(1, << 29825090, 137025226 >>, -56),
        Raw(-1, << 26844852, 61892863 >>, -56),
        Raw(1, << 24647727, 128962693 >>, -56),
        Raw(-1, << 22356279, 97600973 >>, -56) >>,
     tab |-> <<
        << 1, 24334092, 65068703, -52,  -1, 24954871, 166105088, -54 >>,
        << 1, 24196998, 170715423, -52,  -1, 24575724, 34406400, -54 >>,
        << 1, 24061440, 150648224, -52,  -1, 24198705, 55697408, -54 >>,
        << 1, 23927393, 252939389, -52,  -1, 23823795, 136869888, -54 >>,
        << 1, 23794832, 197506257, -52,  -1, 23450969, 8419328, -54 >>,
        << 1, 23663731, 53415098, -52,  -1, 23080199, 102236160, -54 >>,
        << 1, 23534065, 136462883, -52,  -1, 22711464, 110137344, -54 >>,
        << 1, 23405817, 161816281, -52,  -1, 22344757, 100880384, -54 >>,
        << 1, 23278954, 177153220, -52,  -1, 21980028, 57360384, -54 >>,
        << 1, 23153462, 194894868, -52,  -1, 21617279, 229134336, -54 >>,
        << 1, 23029317, 46554188, -52,  -1, 21256483, 160016384, -54 >>,
        << 1, 22906491, 93400143, -52,  -1, 20897603, 162576384, -54 >>,
        << 1, 22784972, 190550238, -52,  -1, 20540644, 76509184, -54 >>,
        << 1, 22664735, 47782520, -52,  -1, 20185569, 129867776, -54 >>,
        << 1, 22545761, 38164103, -52,  -1, 19832366, 256278528, -54 >>,
        << 1, 22428028, 250047443, -52,  -1, 19481011, 137420800, -54 >>,
        << 1, 22311518, 44531603, -52,  -1, 19131480, 215648256, -54 >>,
        << 1, 22196212, 33965443, -52,  -1, 18783762, 153587712, -54 >>,
        << 1, 22082093, 196263391, -52,  -1, 18437842, 189331456, -54 >>,
        << 1, 21969140, 120905431, -52,  -1, 18093689, 179959808, -54 >>,
        << 1, 21857340, 266217536, -52,  -1, 17751305, 82810880, -54 >>,
        << 1, 21746668, 7906248, -52,  -1, 17410641, 148574208, -54 >>,
        << 1, 21637116, 65021322, -52,  -1, 17071717, 40089600, -54 >>,
        << 1, 21528658, 81036340, -52,  -1, 33468964, 92729344, -55 >>,
        << 1, 21421281, 186199307, -52,  -1, 32797863, 85438464, -55 >>,
        << 1, 21314973, 54073428, -52,  -1, 32130115, 219164672, -55 >>,
        << 1, 21209716, 78939226, -52,  -1, 31465684, 82423808, -55 >>,
        << 1, 21105492, 18217211, -52,  -1, 30804514, 158855168, -55 >>,
        << 1, 21002285, 171898033, -52,  -1, 30146576, 76910592, -55 >>,
        << 1, 20900085, 223870607, -52,  -1, 29491861, 109645824, -55 >>,
        << 1, 20798874, 740585, -52,  -1, 28840312, 226562048, -55 >>,
        << 1, 20698636, 1098027, -52,  -1, 28191900, 215207936, -55 >>,
        << 1, 20599362, 192273080, -52,  -1, 27546626, 236097536, -55 >>,
        << 1, 20501036, 228577282, -52,  -1, 26904438, 136179712, -55 >>,
        << 1, 20403644, 92568092, -52,  -1, 26265302, 155725824, -55 >>,
        << 1, 20307172, 162346722, -52,  -1, 25629194, 105234432, -55 >>,
        << 1, 20211609, 139318336, -52,  -1, 24996091, 68431872, -55 >>,
        << 1, 20116940, 251644708, -52,  -1, 24365955, 207777792, -55 >>,
        << 1, 20023159, 94440777, -52,  -1, 23738793, 188178432, -55 >>,
        << 1, 19930243, 121518480, -52,  -1, 23114517, 79142912, -55 >>,
        << 1, 19838187, 194377793, -52,  -1, 22493143, 103034880, -55 >>,
        << 1, 19746976, 35236305, -52,  -1, 21874616, 264384512, -55 >>,
        << 1, 19656602, 146275626, -52,  -1, 21258949, 30539776, -55 >>,
        << 1, 19567047, 168565675, -52,  -1, 20646059, 209911808, -55 >>,
        << 1, 19478310, 1357104, -52,  -1, 20035990, 189333504, -55 >>,
        << 1, 19390373, 123183605, -52,  -1, 19428681, 10764288, -55 >>,
        << 1, 19303225, 186465215, -52,  -1, 18824095, 142188544, -55 >>,
        << 1, 19216856, 59766205, -52,  -1, 18222210, 86810624, -55 >>,
        << 1, 19131258, 180947003, -52,  -1, 17623029, 133636096, -55 >>,
        << 1, 19046418, 195641526, -52,  -1, 17026500, 167682048, -55 >>,
        << 1, 18962329, 114049330, -52,  -1, 32865243, 206274560, -56 >>,
        << 1, 18878977, 231931035, -52,  -1, 31682697, 104873984, -56 >>,
        << 1, 18796356, 156059659, -52,  -1, 30505347, 251215872, -56 >>,
        << 1, 18714453, 42952041, -52,  -1, 29333108, 249077760, -56 >>,
        << 1, 18633265, 22511228, -52,  -1, 28166034, 3104768, -56 >>,
        << 1, 18552775, 80422633, -52,  -1, 27003966, 120094720, -56 >>,
        << 1, 18472976, 204217014, -52,  -1, 25846891, 57851904, -56 >>,
        << 1, 18393863, 196505789, -52,  -1, 24694811, 61603840, -56 >>,
        << 1, 18315426, 99597494, -52,  -1, 23547668, 87556096, -56 >>,
        << 1, 18237651, 88879578, -52,  -1, 22405350, 226983936, -56 >>,
        << 1, 18160537, 2580445, -52,  -1, 21267917, 245489664, -56 >>,
        << 1, 18084074, 70439500, -52,  -1, 20135316, 225091584, -56 >>,
        << 1, 18008247, 34666970, -52,  -1, 19007391, 147152896, -56 >>,
        << 1, 17933058, 149730609, -52,  -1, 17884265, 140648448, -56 >>,
        << 1, 17858493, 176436399, -52,  -1, 33531590, 181534720, -57 >>,
        << 1, 17784544, 256797619, -52,  -1, 31303892, 175587328, -57 >>,
        << 1, 17711205, 220897230, -52,  -1, 29085390, 75825152, -57 >>,
        << 1, 17638470, 53257505, -52,  -1, 26876052, 1228800, -57 >>,
        << 1, 17566327, 216176666, -52,  -1, 24675715, 50511872, -57 >>,
        << 1, 17494776, 63321809, -52,  -1, 22484454, 131497984, -57 >>,
        << 1, 17423801, 144708409, -52,  -1, 20301988, 157646848, -57 >>,
        << 1, 17353402, 257091551, -52,  -1, 18128438, 68501504, -57 >>,
        << 1, 17283570, 256780539, -52,  -1, 31927304, 48988160, -58 >>,
        << 1, 17214296, 204836633, -52,  -1, 27614997, 38961152, -58 >>,
        << 1, 17145578, 99416364, -52,  -1, 23320108, 260145152, -58 >>,
        << 1, 17077404, 231812240, -52,  -1, 19042232, 212467712, -58 >>,
        << 1, 17009772, 116436393, -52,  -1, 29562802, 16318464, -59 >>,
        << 1, 16942673, 58274473, -52,  -1, 21074773, 229244928, -59 >>,
        << 1, 16876098, 132805448, -52,  -1, 25239612, 49020928, -60 >>,
        << 1, 16810048, 102019477, -52,  -1, 16793751, 153354240, -61 >>,
        << 1, 33423871, 119994906, -53,  1, 33488696, 76546048, -61 >>,
        << 1, 33165772, 39971444, -53,  1, 25019411, 87883776, -59 >>,
        << 1, 32911627, 8493358, -53,  1, 20769340, 79855616, -58 >>,
        << 1, 32661347, 216968653, -53,  1, 28965905, 76087296, -58 >>,
        << 1, 32414848, 59839463, -53,  1, 18550156, 235995136, -57 >>,
        << 1, 32172039, 147567019, -53,  1, 22586813, 114688, -57 >>,
        << 1, 31932842, 43846811, -53,  1, 26593332, 14188544, -57 >>,
        << 1, 31697176, 51026357, -53,  1, 30570158, 257392640, -57 >>,
        << 1, 31464960, 157325910, -53,  1, 17258894, 93896704, -56 >>,
        << 1, 31236126, 91732888, -53,  1, 19218270, 51191808, -56 >>,
        << 1, 31010592, 192712963, -53,  1, 21163480, 188219392, -56 >>,
        << 1, 30788294, 117136590, -53,  1, 23094680, 123191296, -56 >>,
        << 1, 30569162, 173989533, -53,  1, 25012067, 90832896, -56 >>,
        << 1, 30353123, 241904845, -53,  1, 26915892, 236740608, -56 >>,
        << 1, 30140122, 44529922, -53,  1, 28806267, 185425920, -56 >>,
        << 1, 29930086, 221710445, -53,  1, 30683443, 48701440, -56 >>,
        << 1, 29722955, 224221188, -53,  1, 32547607, 31350784, -56 >>,
        << 1, 29518675, 62627724, -53,  1, 17199442, 194068480, -55 >>,
        << 1, 29317182, 250406719, -53,  1, 18118744, 43167744, -55 >>,
        << 1, 29118423, 98277057, -53,  1, 19031788, 231354368, -55 >>,
        << 1, 28922336, 210127400, -53,  1, 19938682, 113594368, -55 >>,
        << 1, 28728876, 99565100, -53,  1, 20839475, 204673024, -55 >>,
        << 1, 28537990, 130648203, -53,  1, 21734246, 192577536, -55 >>,
        << 1, 28349618, 18690122, -53,  1, 22623122, 147976192, -55 >>,
        << 1, 28163720, 99807102, -53,  1, 23506130, 68743168, -55 >>,
        << 1, 27980243, 23084450, -53,  1, 24383374, 208048128, -55 >>,
        << 1, 27799139, 265509031, -53,  1, 25254927, 85651456, -55 >>,
        << 1, 27620366, 252277643, -53,  1, 26120853, 83263488, -55 >>,
        << 1, 27443881, 11225895, -53,  1, 26981216, 49823744, -55 >>,
        << 1, 27269633, 60027601, -53,  1, 27836113, 204210176, -55 >>,
        << 1, 27097586, 81476635, -53,  1, 28685589, 201445376, -55 >>,
        << 1, 26927696, 96973200, -53,  1, 29529724, 213696512, -55 >>,
        << 1, 26759919, 43503151, -53,  1, 30368605, 88629248, -55 >>,
        << 1, 26594222, 245648245, -53,  1, 31202259, 71745536, -55 >>,
        << 1, 26430569, 233261112, -53,  1, 32030747, 147841024, -55 >>,
        << 1, 26268914, 258429670, -53,  1, 32854172, 1544192, -55 >>,
        << 1, 26109224, 251647901, -53,  1, 16836289, 35633152, -54 >>,
        << 1, 25951465, 265027708, -53,  1, 17243008, 244568064, -54 >>,
        << 1, 25795597, 180273934, -53,  1, 17647289, 243691520, -54 >>,
        << 1, 25641594, 170072059, -53,  1, 18049139, 55300096, -54 >>,
        << 1, 25489418, 213096968, -53,  1, 18448598, 119752704, -54 >>,
        << 1, 25339038, 140852821, -53,  1, 18845694, 13402112, -54 >>,
        << 1, 25190425, 99877472, -53,  1, 19240445, 123955200, -54 >>,
        << 1, 25043542, 65053481, -53,  1, 19632896, 152348672, -54 >>,
        << 1, 24898359, 131904941, -53,  1, 20023073, 4415488, -54 >>,
        << 1, 24754854, 127346114, -53,  1, 20410982, 233576448, -54 >>,
        << 1, 24612991, 35063383, -53,  1, 20796671, 196030464, -54 >>,
        << 1, 24472749, 198578956, -53,  1, 21180142, 53469184, -54 >> >>]

\* The data of the logarithm of **: as LogData, with the triple
\* << 1/c, log(c) rounded to a multiple of 2^-43, the rest of log(c) >> for
\* each of the 128 intervals of [0x1.69555p-1, 0x1.69555p0).
PowLogData ==
    [ln2hi |-> Raw(1, << 23258159, 251279360 >>, -53),
     ln2lo |-> Raw(1, << 32454009, 63399728 >>, -97),
     poly |-> <<
        Raw(-1, << 16777216, 0 >>, -53),
        Raw(-1, << 22369621, 89478496 >>, -53),
        Raw(1, << 16777216, 6 >>, -53),
        Raw(1, << 26843545, 156849486 >>, -53),
        Raw(-1, << 22369621, 86615162 >>, -53),
        Raw(-1, << 19174841, 189285865 >>, -52),
        Raw(1, << 16777912, 187056067 >>, -52) >>,
     tab |-> <<
        << 1, 23724032, 0, -52,  -1, 23250991, 45729792, -54,  1, 28000834, 137844352, -100 >>,
        << 1, 23592960, 0, -52,  -1, 22879195, 257427456, -54,  -1, 30036109, 148961056, -98 >>,
        << 1, 23461888, 0, -52,  -1, 22505329, 121985024, -54,  -1, 20326989, 95834221, -97 >>,
        << 1, 23330816, 0, -52,  -1, 22129368, 120453120, -54,  -1, 23613001, 246441941, -101 >>,
        << 1, 23199744, 0, -52,  -1, 21751289, 91715584, -54,  -1, 21083801, 53034720, -99 >>,
        << 1, 23068672, 0, -52,  -1, 21371068, 35414016, -54,  1, 20808436, 139232460, -98 >>,
        << 1, 22937600, 0, -52,  -1, 20988680, 109488128, -54,  1, 29634366, 226626362, -102 >>,
        << 1, 22806528, 0, -52,  -1, 20604101, 90785792, -54,  1, 17505384, 106009696, -97 >>,
        << 1, 22675456, 0, -52,  -1, 20217305, 177766400, -54,  1, 22385885, 80052370, -97 >>,
        << 1, 22544384, 0, -52,  -1, 19828267, 182525952, -54,  1, 23572969, 162999256, -97 >>,
        << 1, 22413312, 0, -52,  -1, 19436961, 64915456, -54,  1, 22847819, 114274367, -98 >>,
        << 1, 22413312, 0, -52,  -1, 19436961, 64915456, -54,  1, 22847819, 114274367, -98 >>,
        << 1, 22282240, 0, -52,  -1, 19043359, 198146048, -54,  -1, 23437890, 139713142, -98 >>,
        << 1, 22151168, 0, -52,  -1, 18647436, 23697408, -54,  -1, 33225670, 149378052, -98 >>,
        << 1, 22020096, 0, -52,  -1, 18249162, 195799040, -54,  1, 32636003, 58894576, -98 >>,
        << 1, 21889024, 0, -52,  -1, 17848511, 162416640, -54,  -1, 23759951, 218454630, -97 >>,
        << 1, 21757952, 0, -52,  -1, 17445454, 41127936, -54,  -1, 29802215, 250872590, -99 >>,
        << 1, 21626880, 0, -52,  -1, 17039961, 78958592, -54,  -1, 17001353, 250883455, -100 >>,
        << 1, 21626880, 0, -52,  -1, 17039961, 78958592, -54,  -1, 17001353, 250883455, -100 >>,
        << 1, 21495808, 0, -52,  -1, 33264006, 224280576, -55,  1, 30765738, 194591879, -99 >>,
        << 1, 21364736, 0, -52,  -1, 32443100, 198991872, -55,  1, 28470137, 210153252, -97 >>,
        << 1, 21233664, 0, -52,  -1, 31617142, 237694976, -55,  -1, 24311029, 71302928, -98 >>,
        << 1, 21102592, 0, -52,  -1, 30786070, 189775872, -55,  1, 18589979, 197814299, -97 >>,
        << 1, 20971520, 0, -52,  -1, 29949820, 127574016, -55,  1, 24614134, 144671796, -97 >>,
        << 1, 20971520, 0, -52,  -1, 29949820, 127574016, -55,  1, 24614134, 144671796, -97 >>,
        << 1, 20840448, 0, -52,  -1, 29108327, 70094848, -55,  1, 26536707, 25933711, -98 >>,
        << 1, 20709376, 0, -52,  -1, 28261524, 243318784, -55,  1, 27584051, 265130086, -104 >>,
        << 1, 20578304, 0, -52,  -1, 27409345, 266514432, -55,  -1, 22595149, 205963754, -97 >>,
        << 1, 20578304, 0, -52,  -1, 27409345, 266514432, -55,  -1, 22595149, 205963754, -97 >>,
        << 1, 20447232, 0, -52,  -1, 26551721, 217337856, -55,  -1, 28122512, 79811811, -97 >>,
        << 1, 20316160, 0, -52,  -1, 25688582, 86036480, -55,  1, 29088759, 266074633, -97 >>,
        << 1, 20185088, 0, -52,  -1, 24819856, 34660352, -55,  1, 29210887, 39012952, -97 >>,
        << 1, 20185088, 0, -52,  -1, 24819856, 34660352, -55,  1, 29210887, 39012952, -97 >>,
        << 1, 20054016, 0, -52,  -1, 23945470, 119132160, -55,  -1, 17712810, 62055014, -98 >>,
        << 1, 19922944, 0, -52,  -1, 23065351, 10981376, -55,  -1, 32105529, 252727353, -98 >>,
        << 1, 19922944, 0, -52,  -1, 23065351, 10981376, -55,  -1, 32105529, 252727353, -98 >>,
        << 1, 19791872, 0, -52,  -1, 22179422, 60928000, -55,  -1, 17688761, 482191, -97 >>,
        << 1, 19660800, 0, -52,  -1, 21287606, 214663168, -55,  1, 24169494, 20281404, -98 >>,
        << 1, 19660800, 0, -52,  -1, 21287606, 214663168, -55,  1, 24169494, 20281404, -98 >>,
        << 1, 19529728, 0, -52,  -1, 20389826, 2002944, -55,  1, 18319460, 220681274, -100 >>,
        << 1, 19398656, 0, -52,  -1, 19485999, 136310784, -55,  -1, 21549825, 124896264, -97 >>,
        << 1, 19267584, 0, -52,  -1, 18576045, 86990848, -55,  -1, 31984193, 135373718, -97 >>,
        << 1, 19267584, 0, -52,  -1, 18576045, 86990848, -55,  -1, 31984193, 135373718, -97 >>,
        << 1, 19136512, 0, -52,  -1, 17659879, 214994944, -55,  1, 27695464, 149445620, -99 >>,
        << 1, 19136512, 0, -52,  -1, 17659879, 214994944, -55,  1, 27695464, 149445620, -99 >>,
        << 1, 19005440, 0, -52,  -1, 33474835, 31186944, -56,  -1, 22500677, 212022258, -97 >>,
        << 1, 18874368, 0, -52,  -1, 31617142, 237699072, -56,  1, 27476674, 183500860, -97 >>,
        << 1, 18874368, 0, -52,  -1, 31617142, 237699072, -56,  1, 27476674, 183500860, -97 >>,
        << 1, 18743296, 0, -52,  -1, 29746504, 257671168, -56,  -1, 30459253, 140492294, -98 >>,
        << 1, 18612224, 0, -52,  -1, 27862739, 172679168, -56,  1, 22254430, 140225224, -97 >>,
        << 1, 18612224, 0, -52,  -1, 27862739, 172679168, -56,  1, 22254430, 140225224, -97 >>,
        << 1, 18481152, 0, -52,  -1, 25965661, 103915520, -56,  1, 20431508, 221206120, -98 >>,
        << 1, 18481152, 0, -52,  -1, 25965661, 103915520, -56,  1, 20431508, 221206120, -98 >>,
        << 1, 18350080, 0, -52,  -1, 24055080, 182804480, -56,  -1, 23688060, 154366938, -97 >>,
        << 1, 18219008, 0, -52,  -1, 22130803, 252059648, -56,  1, 32515510, 29777495, -98 >>,
        << 1, 18219008, 0, -52,  -1, 22130803, 252059648, -56,  1, 32515510, 29777495, -98 >>,
        << 1, 18087936, 0, -52,  -1, 20192633, 102490112, -56,  1, 29748652, 217650143, -97 >>,
        << 1, 18087936, 0, -52,  -1, 20192633, 102490112, -56,  1, 29748652, 217650143, -97 >>,
        << 1, 17956864, 0, -52,  -1, 18240366, 245596160, -56,  1, 21480935, 110076681, -98 >>,
        << 1, 17825792, 0, -52,  -1, 32547596, 1146880, -57,  1, 30775784, 53907089, -97 >>,
        << 1, 17825792, 0, -52,  -1, 32547596, 1146880, -57,  1, 30775784, 53907089, -97 >>,
        << 1, 17694720, 0, -52,  -1, 28585431, 18448384, -57,  1, 29894574, 97939532, -98 >>,
        << 1, 17694720, 0, -52,  -1, 28585431, 18448384, -57,  1, 29894574, 97939532, -98 >>,
        << 1, 17563648, 0, -52,  -1, 24593807, 103989248, -57,  -1, 30393443, 83010030, -97 >>,
        << 1, 17563648, 0, -52,  -1, 24593807, 103989248, -57,  -1, 30393443, 83010030, -97 >>,
        << 1, 17432576, 0, -52,  -1, 20572283, 167690240, -57,  1, 22031231, 86441642, -100 >>,
        << 1, 17432576, 0, -52,  -1, 20572283, 167690240, -57,  1, 22031231, 86441642, -100 >>,
        << 1, 17301504, 0, -52,  -1, 33040816, 242745344, -58,  -1, 26739303, 209586660, -97 >>,
        << 1, 17301504, 0, -52,  -1, 33040816, 242745344, -58,  -1, 26739303, 209586660, -97 >>,
        << 1, 17170432, 0, -52,  -1, 24875440, 131432448, -58,  -1, 25744713, 66758201, -97 >>,
        << 1, 17039360, 0, -52,  -1, 33294987, 16515072, -59,  -1, 32630735, 114534044, -102 >>,
        << 1, 17039360, 0, -52,  -1, 33294987, 16515072, -59,  -1, 32630735, 114534044, -102 >>,
        << 1, 16908288, 0, -52,  -1, 33424038, 185597952, -60,  -1, 27141104, 232407268, -98 >>,
        << 1, 16908288, 0, -52,  -1, 33424038, 185597952, -60,  -1, 27141104, 232407268, -98 >>,
        << 1, 16777216, 0, -52,  0, 0, 0, 0,  0, 0, 0, 0 >>,
        << 1, 16777216, 0, -52,  0, 0, 0, 0,  0, 0, 0, 0 >>,
        << 1, 33292288, 0, -53,  1, 16843095, 92864512, -59,  -1, 17594041, 161295336, -98 >>,
        << 1, 33030144, 0, -53,  1, 16909669, 143884288, -58,  -1, 20825520, 115537874, -97 >>,
        << 1, 32768000, 0, -53,  1, 25465426, 147390464, -58,  -1, 27921315, 39455796, -97 >>,
        << 1, 32505856, 0, -53,  1, 17044952, 166150144, -57,  1, 17898501, 217175891, -99 >>,
        << 1, 32243712, 0, -53,  1, 21392109, 70123520, -57,  -1, 29452087, 96337192, -97 >>,
        << 1, 31981568, 0, -53,  1, 25774753, 77578240, -57,  -1, 26712413, 5908093, -98 >>,
        << 1, 31719424, 0, -53,  1, 30193468, 232636416, -57,  -1, 27692836, 131606535, -98 >>,
        << 1, 31588352, 0, -53,  1, 32416540, 442368, -57,  -1, 31527908, 264846203, -99 >>,
        << 1, 31326208, 0, -53,  1, 18445245, 21389312, -56,  -1, 22226389, 101555867, -97 >>,
        << 1, 31064064, 0, -53,  1, 20701018, 131194880, -56,  1, 30180842, 98258647, -97 >>,
        << 1, 30801920, 0, -53,  1, 22975908, 228040704, -56,  -1, 29790307, 207428894, -97 >>,
        << 1, 30670848, 0, -53,  1, 24120624, 183156736, -56,  1, 29485274, 161344818, -101 >>,
        << 1, 30408704, 0, -53,  1, 26424805, 223952896, -56,  1, 19994051, 180176858, -97 >>,
        << 1, 30146560, 0, -53,  1, 28748936, 229466112, -56,  -1, 20514818, 200763621, -98 >>,
        << 1, 30015488, 0, -53,  1, 29918592, 29114368, -56,  1, 23358748, 106605779, -97 >>,
        << 1, 29753344, 0, -53,  1, 32273304, 50995200, -56,  -1, 31196810, 266749408, -97 >>,
        << 1, 29622272, 0, -53,  1, 33458451, 165404672, -56,  -1, 22236516, 262212349, -97 >>,
        << 1, 29360128, 0, -53,  1, 17922280, 36167680, -55,  1, 18806668, 237832178, -97 >>,
        << 1, 29229056, 0, -53,  1, 18522807, 237236224, -55,  1, 30046436, 70818100, -97 >>,
        << 1, 28966912, 0, -53,  1, 19731984, 210141184, -55,  1, 20567756, 193049761, -99 >>,
        << 1, 28835840, 0, -53,  1, 20340683, 1413120, -55,  1, 23263874, 55276169, -103 >>,
        << 1, 28573696, 0, -53,  1, 21566424, 53719040, -55,  1, 22558613, 83736184, -97 >>,
        << 1, 28442624, 0, -53,  1, 22183518, 77705216, -55,  1, 23281294, 90799559, -97 >>,
        << 1, 28180480, 0, -53,  1, 23426283, 244060160, -55,  1, 27064498, 205270648, -98 >>,
        << 1, 28049408, 0, -53,  1, 24052008, 192245760, -55,  -1, 22091998, 94118369, -97 >>,
        << 1, 27918336, 0, -53,  1, 24680664, 88363008, -55,  -1, 29778183, 9519877, -98 >>,
        << 1, 27656192, 0, -53,  1, 25946878, 188284928, -55,  -1, 24368458, 183053521, -99 >>,
        << 1, 27525120, 0, -53,  1, 26584493, 217513984, -55,  1, 25109125, 144768879, -99 >>,
        << 1, 27262976, 0, -53,  1, 27868883, 210427904, -55,  -1, 25633845, 5644649, -97 >>,
        << 1, 27131904, 0, -53,  1, 28515717, 123457536, -55,  -1, 29579476, 246210986, -99 >>,
        << 1, 27000832, 0, -53,  1, 29165683, 138141696, -55,  -1, 30719045, 156504758, -97 >>,
        << 1, 26869760, 0, -53,  1, 29818812, 116396032, -55,  -1, 18794284, 93727698, -100 >>,
        << 1, 26607616, 0, -53,  1, 31134683, 13930496, -55,  -1, 28308143, 118861877, -97 >>,
        << 1, 26476544, 0, -53,  1, 31797487, 266801152, -55,  1, 18948726, 4322352, -103 >>,
        << 1, 26345472, 0, -53,  1, 32463582, 81592320, -55,  -1, 27398486, 96177681, -103 >>,
        << 1, 26214400, 0, -53,  1, 33132998, 213102592, -55,  1, 29146828, 168615728, -98 >>,
        << 1, 25952256, 0, -53,  1, 17240966, 5068800, -54,  1, 25808305, 116215441, -100 >>,
        << 1, 25821184, 0, -53,  1, 17580758, 123822080, -54,  1, 24217777, 104655593, -97 >>,
        << 1, 25690112, 0, -53,  1, 17922280, 36169728, -54,  -1, 29495526, 61206556, -97 >>,
        << 1, 25559040, 0, -53,  1, 18265548, 195885056, -54,  1, 28945631, 128259713, -97 >>,
        << 1, 25427968, 0, -53,  1, 18610582, 56256512, -54,  1, 30043861, 21478839, -97 >>,
        << 1, 25296896, 0, -53,  1, 18957398, 219068416, -54,  1, 27819499, 172407530, -99 >>,
        << 1, 25034752, 0, -53,  1, 19656455, 215781376, -54,  1, 27905956, 173016308, -97 >>,
        << 1, 24903680, 0, -53,  1, 20008734, 30629888, -54,  -1, 26093485, 52509880, -97 >>,
        << 1, 24772608, 0, -53,  1, 20362871, 113119232, -54,  1, 18279643, 15824840, -98 >>,
        << 1, 24641536, 0, -53,  1, 20718887, 120795136, -54,  1, 25408843, 101104988, -98 >>,
        << 1, 24510464, 0, -53,  1, 21076802, 64350208, -54,  1, 26100590, 210821277, -99 >>,
        << 1, 24379392, 0, -53,  1, 21436636, 41011200, -54,  -1, 32668896, 157800053, -97 >>,
        << 1, 24248320, 0, -53,  1, 21798409, 236400640, -54,  -1, 31590545, 185260196, -97 >>,
        << 1, 24117248, 0, -53,  1, 22162144, 121151488, -54,  1, 32237320, 23381849, -97 >>,
        << 1, 23986176, 0, -53,  1, 22527861, 63492096, -54,  1, 33218270, 240992495, -98 >>,
        << 1, 23855104, 0, -53,  1, 22895581, 257515520, -54,  -1, 27308704, 144991708, -99 >> >>]

\* The data of the exponential of **: 128 / ln(2), the constant 0x1.8p52 whose
\* addition rounds to an integer, -ln(2) / 128 in two parts, the coefficients
\* of exp(r) - 1 - r, and for j = 0 .. 127 the pair << t, s >> with s + s * t
\* the value of 2^(j/128), s a float.
ExpData ==
    [invln2N |-> Raw(1, << 24204406, 86737662 >>, -45),
     shift |-> Raw(1, << 25165824, 0 >>, 0),
     negln2hiN |-> Raw(-1, << 23258159, 251265024 >>, -60),
     negln2loN |-> Raw(-1, << 30374315, 211696442 >>, -99),
     poly |-> <<
        Raw(1, << 33554431, 268434877 >>, -54),
        Raw(1, << 22369621, 89478204 >>, -55),
        Raw(1, << 22369628, 253176721 >>, -57),
        Raw(1, << 17895702, 128241687 >>, -59) >>,
     tab |-> <<
        << 0, 0, 0, 0,  1, 16777216, 0, -52 >>,
        << 1, 28554481, 176734062, -106,  1, 16868314, 167457589, -52 >>,
        << -1, 18219321, 215538781, -108,  1, 16959907, 242712673, -52 >>,
        << -1, 17164193, 8873681, -106,  1, 17051998, 141459333, -52 >>,
        << 1, 30221603, 90699283, -107,  1, 17144589, 51742068, -52 >>,
        << -1, 29157378, 66686714, -107,  1, 17237682, 165541598, -52 >>,
        << 1, 17790182, 31901793, -109,  1, 17331281, 141925320, -52 >>,
        << 1, 17448517, 187945881, -106,  1, 17425388, 180810627, -52 >>,
        << 1, 24750693, 226720621, -106,  1, 17520006, 217680143, -52 >>,
        << 1, 32199081, 50196476, -107,  1, 17615138, 192038903, -52 >>,
        << 1, 32236503, 3120337, -112,  1, 17710787, 47436194, -52 >>,
        << -1, 27276104, 160460299, -109,  1, 17806954, 268358427, -52 >>,
        << -1, 22373666, 170900750, -106,  1, 17903645, 1203025, -52 >>,
        << -1, 17305336, 206498389, -110,  1, 18000860, 7090636, -52 >>,
        << -1, 18649659, 165016598, -106,  1, 18098602, 245968352, -52 >>,
        << 1, 17645118, 157046191, -107,  1, 18196876, 145067601, -52 >>,
        << -1, 16888158, 178623304, -107,  1, 18295683, 209539451, -52 >>,
        << -1, 32636677, 98447933, -107,  1, 18395027, 143429098, -52 >>,
        << 1, 28874947, 252924863, -107,  1, 18494910, 191875957, -52 >>,
        << -1, 23960007, 101837606, -106,  1, 18595336, 67394772, -52 >>,
        << 1, 28233587, 238694240, -106,  1, 18696307, 23640490, -52 >>,
        << -1, 33454124, 193345693, -107,  1, 18797826, 50125085, -52 >>,
        << 1, 27718676, 78037901, -107,  1, 18899896, 140676310, -52 >>,
        << 1, 17277019, 14943357, -107,  1, 19002521, 25025686, -52 >>,
        << 1, 23654366, 61384852, -106,  1, 19105702, 242573880, -52 >>,
        << 1, 24502671, 41175165, -107,  1, 19209444, 263366207, -52 >>,
        << 1, 17068729, 136308722, -107,  1, 19313750, 98729181, -52 >>,
        << -1, 23824307, 259065950, -106,  1, 19418622, 32859009, -52 >>,
        << 1, 19889686, 218737457, -107,  1, 19524063, 85974753, -52 >>,
        << -1, 30546353, 175095802, -112,  1, 19630077, 14342544, -52 >>,
        << 1, 28538919, 34343604, -107,  1, 19736666, 115606283, -52 >>,
        << 1, 31541544, 164547471, -109,  1, 19843834, 155070294, -52 >>,
        << 1, 20240212, 229682102, -107,  1, 19951584, 171030293, -52 >>,
        << 1, 23339038, 44856396, -107,  1, 20059919, 206362673, -52 >>,
        << 1, 33411989, 231995466, -107,  1, 20168843, 40113919, -52 >>,
        << -1, 23738371, 193878788, -107,  1, 20278357, 261267441, -52 >>,
        << -1, 19181276, 206262376, -106,  1, 20388467, 121285067, -52 >>,
        << -1, 26247041, 189869454, -106,  1, 20499174, 218486886, -52 >>,
        << -1, 18685571, 244594386, -108,  1, 20610483, 82157559, -52 >>,
        << -1, 26317211, 63838997, -106,  1, 20722396, 51620069, -52 >>,
        << 1, 22672522, 120212589, -107,  1, 20834916, 202519586, -52 >>,
        << -1, 19998215, 170420618, -106,  1, 20948048, 78413852, -52 >>,
        << -1, 25852148, 135760219, -110,  1, 21061794, 32976426, -52 >>,
        << -1, 29542838, 122264091, -108,  1, 21176157, 156280983, -52 >>,
        << 1, 20332246, 12758033, -111,  1, 21291142, 6392109, -52 >>,
        << 1, 23486611, 184968431, -106,  1, 21406750, 220004439, -52 >>,
        << 1, 32296477, 178324345, -109,  1, 21522987, 96550096, -52 >>,
        << 1, 20969699, 252645936, -106,  1, 21639855, 14144478, -52 >>,
        << 1, 23661803, 192589744, -108,  1, 21757357, 87435815, -52 >>,
        << 1, 20044766, 190111863, -106,  1, 21875497, 167632141, -52 >>,
        << -1, 33112896, 7447438, -107,  1, 21994279, 110963879, -52 >>,
        << -1, 25029837, 211002185, -107,  1, 22113706, 47146562, -52 >>,
        << -1, 26078315, 219101279, -108,  1, 22233781, 110972802, -52 >>,
        << -1, 23143534, 209411318, -107,  1, 22354508, 173904399, -52 >>,
        << 1, 20140113, 150853518, -106,  1, 22475891, 112535514, -52 >>,
        << 1, 28937074, 260741893, -108,  1, 22597933, 77055997, -52 >>,
        << 1, 17186334, 35410953, -106,  1, 22720637, 222843945, -52 >>,
        << 1, 21788757, 1689322, -112,  1, 22844008, 173622967, -52 >>,
        << 1, 21180002, 191152181, -106,  1, 22968049, 95232328, -52 >>,
        << -1, 30295206, 26834591, -107,  1, 23092763, 158784521, -52 >>,
        << -1, 29572179, 200232360, -107,  1, 23218155, 3822981, -52 >>,
        << -1, 21313416, 153872814, -107,  1, 23344227, 80528160, -52 >>,
        << -1, 20770263, 139876440, -106,  1, 23470984, 39133733, -52 >>,
        << 1, 24185512, 8264036, -110,  1, 23598429, 72132979, -52 >>,
        << -1, 20659963, 257827368, -106,  1, 23726566, 109001677, -52 >>,
        << -1, 27339480, 120895874, -109,  1, 23855399, 84662975, -52 >>,
        << -1, 20348667, 141404654, -109,  1, 23984931, 207952431, -52 >>,
        << -1, 17679317, 81823825, -107,  1, 24115167, 156341380, -52 >>,
        << -1, 25294407, 240795343, -108,  1, 24246110, 149708660, -52 >>,
        << -1, 24044716, 9141680, -107,  1, 24377764, 145064308, -52 >>,
        << -1, 23171873, 240510602, -107,  1, 24510133, 105015241, -52 >>,
        << 1, 17419445, 235525331, -106,  1, 24643220, 266231103, -52 >>,
        << -1, 28519883, 156083485, -108,  1, 24777031, 65732999, -52 >>,
        << 1, 21942229, 73908331, -106,  1, 24911568, 19972402, -52 >>,
        << 1, 22986266, 198601813, -109,  1, 25046835, 114249314, -52 >>,
        << -1, 25828434, 263442242, -107,  1, 25182837, 71178770, -52 >>,
        << -1, 20355951, 20657972, -106,  1, 25319577, 156028435, -52 >>,
        << -1, 17164355, 169475870, -107,  1, 25457060, 103008173, -52 >>,
        << -1, 21841165, 141711214, -106,  1, 25595289, 189043437, -52 >>,
        << 1, 17487477, 185502208, -106,  1, 25734269, 160065177, -52 >>,
        << 1, 31159036, 32565940, -107,  1, 25874004, 36348123, -52 >>,
        << -1, 22767113, 214296575, -109,  1, 26014497, 112542860, -52 >>,
        << 1, 29321269, 166944580, -108,  1, 26155753, 152401718, -52 >>,
        << -1, 19960314, 119422339, -106,  1, 26297776, 194117574, -52 >>,
        << -1, 31103880, 191634985, -110,  1, 26440571, 13485541, -52 >>,
        << -1, 29507479, 210811225, -109,  1, 26584140, 197677583, -52 >>,
        << -1, 19149874, 49609130, -106,  1, 26728489, 266227280, -52 >>,
        << -1, 22849229, 124161611, -107,  1, 26873623, 13240250, -52 >>,
        << 1, 18546626, 194104871, -108,  1, 27019544, 44298384, -52 >>,
        << 1, 31269726, 17462203, -109,  1, 27166257, 165880611, -52 >>,
        << -1, 24924226, 39985763, -107,  1, 27313767, 190702949, -52 >>,
        << 1, 28428398, 65155541, -107,  1, 27462078, 206187827, -52 >>,
        << -1, 18595101, 62700309, -106,  1, 27611195, 37627229, -52 >>,
        << 1, 17613593, 216936914, -106,  1, 27761121, 53523288, -52 >>,
        << 1, 21403718, 242440883, -107,  1, 27911861, 91880895, -52 >>,
        << -1, 19791065, 126786996, -107,  1, 28063419, 265548666, -52 >>,
        << 1, 29468537, 46871431, -107,  1, 28215801, 156947373, -52 >>,
        << -1, 17283316, 181524986, -106,  1, 28369010, 160282214, -52 >>,
        << -1, 22822293, 115125946, -110,  1, 28523051, 139400699, -52 >>,
        << -1, 17449187, 229045824, -106,  1, 28677928, 233134394, -52 >>,
        << -1, 26046275, 145593140, -109,  1, 28833647, 50028103, -52 >>,
        << -1, 18804262, 190351925, -106,  1, 28990211, 10552906, -52 >>,
        << 1, 22019440, 174054861, -108,  1, 29147625, 4964818, -52 >>,
        << -1, 18603967, 177379500, -106,  1, 29305893, 198647305, -52 >>,
        << 1, 20376291, 11472051, -108,  1, 29465021, 226841244, -52 >>,
        << 1, 32387877, 211811732, -107,  1, 29625013, 268423290, -52 >>,
        << 1, 21891325, 17389996, -107,  1, 29785874, 240636235, -52 >>,
        << 1, 20765427, 139336295, -109,  1, 29947609, 67561397, -52 >>,
        << 1, 24556230, 210901352, -109,  1, 30110221, 217026665, -52 >>,
        << -1, 17342856, 63747538, -107,  1, 30273717, 90031098, -52 >>,
        << -1, 33215955, 268434031, -107,  1, 30438100, 168266108, -52 >>,
        << -1, 16833251, 141928777, -106,  1, 30603376, 135105010, -52 >>,
        << 1, 21641306, 104662951, -108,  1, 30769549, 217818247, -52 >>,
        << -1, 19470818, 4203023, -107,  1, 30936625, 113869720, -52 >>,
        << 1, 31827213, 96572076, -107,  1, 31104608, 64696965, -52 >>,
        << 1, 21210522, 201419595, -107,  1, 31273503, 50443360, -52 >>,
        << -1, 19747344, 129252895, -107,  1, 31443315, 58432351, -52 >>,
        << -1, 26389395, 189205961, -107,  1, 31614049, 83206441, -52 >>,
        << 1, 21717062, 3836115, -108,  1, 31785710, 126566390, -52 >>,
        << 1, 20733637, 27095665, -107,  1, 31958303, 197610627, -52 >>,
        << -1, 33517864, 265523696, -107,  1, 32131834, 44339418, -52 >>,
        << -1, 31123854, 35878013, -107,  1, 32306306, 227436529, -52 >>,
        << 1, 32259012, 27926536, -107,  1, 32481726, 241261095, -52 >>,
        << 1, 21150028, 61467442, -107,  1, 32658099, 124500631, -52 >>,
        << 1, 27675283, 30508526, -107,  1, 32835429, 191776064, -52 >>,
        << -1, 31685550, 71033837, -107,  1, 33013722, 228376084, -52 >>,
        << 1, 24679348, 227659165, -108,  1, 33192984, 27168984, -52 >>,
        << 1, 19946516, 23121033, -110,  1, 33373218, 193950193, -52 >> >>]

\* The i-th float of a row of a table.
Entry(row, i) ==
    Raw(row[4 * i - 3], << row[4 * i - 2], row[4 * i - 1] >>, row[4 * i])

\* One operation of the library's code on the registers regs: the value the
\* register ins[2] receives.  fma is the fused a * b + c; tail and scale
\* read the table of exp (the register tab) at the low seven bits of n, the
\* integer in the low bits of the register kdr = ehi * 128 / ln(2) +
\* 0x1.8p52: 2^(n/128) is s * 2^(n \div 128) with s + s * t the table's
\* value of 2^((n % 128)/128).
Step(ins, regs) ==
    CASE ins[1] = "fma" -> FFma(regs[ins[3]], regs[ins[4]], regs[ins[5]])
      [] ins[1] = "mul" -> FMul(regs[ins[3]], regs[ins[4]])
      [] ins[1] \in { "add", "sub" } ->
            FAdd(regs[ins[3]],
                 IF ins[1] = "sub" THEN FNeg(regs[ins[4]]) ELSE regs[ins[4]])
      [] ins[1] = "neg" -> FNeg(regs[ins[3]])
      [] ins[1] = "tail" -> Entry(regs.tab[(regs[ins[3]].l % 128) + 1], 1)
      [] ins[1] = "scale" ->
            FScale(Entry(regs.tab[(regs[ins[3]].l % 128) + 1], 2),
                   (regs[ins[3]].h - 3 * 2^23) * 2^21 + regs[ins[3]].l \div 128)

\* The registers after the operations code[i], ..., code[j] in order, i <= j:
\* those up to the middle one, then the rest.
RECURSIVE Exec(_, _, _, _)
Exec(code, regs, i, j) ==
    IF i = j THEN (code[i][2] :> Step(code[i], regs)) @@ regs
    ELSE CHOOSE r \in { Exec(code, half, (i + j) \div 2 + 1, j) :
                          half \in { Exec(code, regs, i, (i + j) \div 2) } } :
             TRUE

\* The registers after the routine code, started with the registers regs.
Run(code, regs) == Exec(code, regs, 1, Len(code))

\* The code of log10(x), x being m * 2^n and nd = n: y = log(m), then
\* (n * log10_2lo + ivln10 * y) + n * log10_2hi.  For m in
\* [0x1.ep-1, 0x1.09p0) (near), with r = m - 1, log(m) is r - r^2 / 2 with
\* the rounding error of the square recovered through the high part rhi of
\* r, and the polynomial poly1 (B0 .. B10) in r for the rest.  Otherwise m
\* is z * 2^k and log(m) is k * ln(2) + log(c) + log(z / c), with kd = k,
\* << invc, logc >> the table's << 1/c, log(c) >>, r = z / c - 1 and the
\* polynomial poly (A0 .. A4) in r.
Log10Code(near) ==
    (IF near
     THEN
         << << "sub", "r", "x", "one" >>,
            << "mul", "r2", "r", "r" >>,
            << "mul", "r3", "r", "r2" >>,
            << "fma", "t", "r", "c27", "r" >>,
            << "fma", "rhi", "mc27", "r", "t" >>,
            << "mul", "rhi2", "rhi", "rhi" >>,
            << "fma", "hi", "rhi2", "B0", "r" >>,
            << "fma", "p", "r", "B8", "B7" >>,
            << "fma", "p", "r2", "B9", "p" >>,
            << "fma", "p", "r3", "B10", "p" >>,
            << "fma", "q", "r", "B5", "B4" >>,
            << "fma", "q", "r2", "B6", "q" >>,
            << "fma", "p", "p", "r3", "q" >>,
            << "fma", "q", "r", "B2", "B1" >>,
            << "fma", "q", "r2", "B3", "q" >>,
            << "fma", "p", "p", "r3", "q" >>,
            << "sub", "lo", "r", "hi" >>,
            << "fma", "lo", "rhi2", "B0", "lo" >>,
            << "sub", "rlo", "r", "rhi" >>,
            << "mul", "rlo", "B0", "rlo" >>,
            << "add", "rs", "r", "rhi" >>,
            << "fma", "lo", "rlo", "rs", "lo" >>,
            << "fma", "lo", "p", "r3", "lo" >>,
            << "add", "y", "hi", "lo" >> >>
     ELSE
         << << "fma", "r", "z", "invc", "m1" >>,
            << "fma", "w", "kd", "ln2hi", "logc" >>,
            << "add", "hi", "w", "r" >>,
            << "sub", "lo", "w", "hi" >>,
            << "add", "lo", "lo", "r" >>,
            << "fma", "lo", "kd", "ln2lo", "lo" >>,
            << "mul", "r2", "r", "r" >>,
            << "fma", "lo", "r2", "A0", "lo" >>,
            << "fma", "p", "r", "A2", "A1" >>,
            << "fma", "q", "r", "A4", "A3" >>,
            << "fma", "p", "q", "r2", "p" >>,
            << "mul", "r3", "r", "r2" >>,
            << "fma", "y", "r3", "p", "lo" >>,
            << "add", "y", "y", "hi" >> >>)
    \o
    << << "mul", "u", "nd", "log10_2lo" >>,
       << "mul", "v", "ivln10", "y" >>,
       << "add", "u", "u", "v" >>,
       << "mul", "v", "nd", "log10_2hi" >>,
       << "add", "res", "u", "v" >> >>

\* The registers log10 starts from, for m * 2^n and the data d of log:
\* x = m; away from 1, m is z * 2^k with z in [0x1.6p-1, 0x1.6p0), and the
\* seven bits of m after those of 0x1.6p-1 give the row i of the table.
LogRegs(m, n, k, i, d) ==
    [x |-> m, nd |-> FInt(n), one |-> FInt(1), m1 |-> FInt(-1),
     c27 |-> FInt(2^27), mc27 |-> FInt(-(2^27)),
     z |-> Raw(1, Mant(m), -52 - k), kd |-> FInt(m.e + 52 + k),
     invc |-> Entry(d.tab[i], 1), logc |-> Entry(d.tab[i], 2),
     ln2hi |-> d.ln2hi, ln2lo |-> d.ln2lo,
     A0 |-> d.poly[1], A1 |-> d.poly[2], A2 |-> d.poly[3],
     A3 |-> d.poly[4], A4 |-> d.poly[5],
     B0 |-> d.poly1[1], B1 |-> d.poly1[2], B2 |-> d.poly1[3],
     B3 |-> d.poly1[4], B4 |-> d.poly1[5], B5 |-> d.poly1[6],
     B6 |-> d.poly1[7], B7 |-> d.poly1[8], B8 |-> d.poly1[9],
     B9 |-> d.poly1[10], B10 |-> d.poly1[11],
     log10_2lo |-> Raw(1, << 27258673, 32582454 >>, -94),
     ivln10 |-> Raw(1, << 29145009, 86435086 >>, -54),
     log10_2hi |-> Raw(1, << 20201781, 10444800 >>, -54)]

\* np.log10(x), x > 0: x is m * 2^n, m in [1, 2) for n >= 0 and in [1/2, 1)
\* for n < 0.
FLog10(x) ==
    CASE x.sg = 1 ->
        Flt(Run(Log10Code(FGe(Raw(1, Mant(x), -52 - (IF x.e + 52 < 0 THEN 1 ELSE 0)),
                              FDec(15, 16))
                          /\ FLt(Raw(1, Mant(x),
                                     -52 - (IF x.e + 52 < 0 THEN 1 ELSE 0)),
                                 FDec(4361, 4096))),
                LogRegs(Raw(1, Mant(x), -52 - (IF x.e + 52 < 0 THEN 1 ELSE 0)),
                        x.e + 52 + (IF x.e + 52 < 0 THEN 1 ELSE 0),
                        IF x.h - 2^24 >= 6291456 THEN 1 ELSE 0,
                        ((x.h - 6291456) % 2^24) \div 2^17 + 1, LogData)).res,
            TRUE)


\* pow(x, y) = exp(y * log(x)) for x = z * 2^k > 0, kd = k and << invc, logc,
\* logctail >> the table's entry for z: the logarithm in two floats hi and
\* lo with r = z / c - 1 and the polynomial poly (A0 .. A6); the product
\* with y in two floats ehi and elo; then exp from er = ehi + elo less
\* n * ln(2) / 128, with the polynomial poly (C2 .. C5).  The result is
\* formed fused, and in two operations as the library does below exp(-512).
PowCode ==
    << << "fma", "r", "z", "invc", "m1" >>,
       << "fma", "t1", "kd", "ln2hi", "logc" >>,
       << "fma", "lo1", "kd", "ln2lo", "logctail" >>,
       << "mul", "ar", "A0", "r" >>,
       << "mul", "ar2", "r", "ar" >>,
       << "mul", "ar3", "r", "ar2" >>,
       << "add", "t2", "r", "t1" >>,
       << "sub", "lo2", "t1", "t2" >>,
       << "add", "lo2", "lo2", "r" >>,
       << "add", "lo12", "lo1", "lo2" >>,
       << "add", "hi", "t2", "ar2" >>,
       << "neg", "nar2", "ar2" >>,
       << "fma", "lo3", "ar", "r", "nar2" >>,
       << "sub", "lo4", "t2", "hi" >>,
       << "add", "lo4", "lo4", "ar2" >>,
       << "fma", "p", "r", "A6", "A5" >>,
       << "fma", "q", "r", "A4", "A3" >>,
       << "fma", "p", "p", "ar2", "q" >>,
       << "fma", "q", "r", "A2", "A1" >>,
       << "fma", "p", "ar2", "p", "q" >>,
       << "add", "lo", "lo12", "lo3" >>,
       << "add", "lo", "lo", "lo4" >>,
       << "fma", "lo", "ar3", "p", "lo" >>,
       << "add", "lhi", "hi", "lo" >>,
       << "sub", "llo", "hi", "lhi" >>,
       << "add", "llo", "llo", "lo" >>,
       << "mul", "ehi", "y", "lhi" >>,
       << "neg", "nehi", "ehi" >>,
       << "fma", "elo", "lhi", "y", "nehi" >>,
       << "fma", "elo", "y", "llo", "elo" >>,
       << "fma", "kdr", "ehi", "invln2N", "shift" >>,
       << "sub", "kd", "kdr", "shift" >>,
       << "fma", "er", "kd", "negln2hiN", "ehi" >>,
       << "fma", "er", "kd", "negln2loN", "er" >>,
       << "add", "er", "elo", "er" >>,
       << "tail", "tail", "kdr" >>,
       << "scale", "scale", "kdr" >>,
       << "mul", "r2", "er", "er" >>,
       << "mul", "r4", "r2", "r2" >>,
       << "add", "tmp", "er", "tail" >>,
       << "fma", "p", "er", "C3", "C2" >>,
       << "fma", "tmp", "p", "r2", "tmp" >>,
       << "fma", "q", "er", "C5", "C4" >>,
       << "fma", "tmp", "q", "r4", "tmp" >>,
       << "fma", "fused", "tmp", "scale", "scale" >>,
       << "mul", "split", "tmp", "scale" >>,
       << "add", "split", "scale", "split" >> >>

\* The registers pow starts from, with the data ld of its logarithm and ed
\* of its exponential: x is z * 2^k with z in [0x1.69555p-1, 0x1.69555p0),
\* and the seven bits of x after those of 0x1.69555p-1 give the row i of the
\* table of the logarithm.
PowRegs(x, y, k, i, ld, ed) ==
    [y |-> float(y), m1 |-> FInt(-1),
     z |-> Raw(1, Mant(x), -52 - k), kd |-> FInt(x.e + 52 + k),
     invc |-> Entry(ld.tab[i], 1), logc |-> Entry(ld.tab[i], 2),
     logctail |-> Entry(ld.tab[i], 3), tab |-> ed.tab,
     ln2hi |-> ld.ln2hi, ln2lo |-> ld.ln2lo,
     A0 |-> ld.poly[1], A1 |-> ld.poly[2],
     A2 |-> ld.poly[3], A3 |-> ld.poly[4],
     A4 |-> ld.poly[5], A5 |-> ld.poly[6],
     A6 |-> ld.poly[7],
     invln2N |-> ed.invln2N, shift |-> ed.shift,
     negln2hiN |-> ed.negln2hiN, negln2loN |-> ed.negln2loN,
     C2 |-> ed.poly[1], C3 |-> ed.poly[2],
     C4 |-> ed.poly[3], C5 |-> ed.poly[4]]

\* The result in the registers regs of PowCode, abs(ehi) < 708: 1 without
\* the operations of exp when abs(ehi) < 2^-54.
PowExp(regs) ==
    CASE regs.ehi.sg = 0 \/ regs.ehi.e + 52 < -54 -> FInt(1)
      [] regs.ehi.sg # 0 /\ regs.ehi.e + 52 >= -54
            /\ FLt(FAbs(regs.ehi), FInt(708)) ->
            IF regs.kdr.h < 3 * 2^23 /\ regs.ehi.e + 52 >= 9
            THEN regs.split ELSE regs.fused

\* x ** y as pow(x, y) of the library.  A negative x with an integer y has
\* the power of -x, negated when y is odd.
RECURSIVE FPow(_, _)
FPow(x, y) ==
    CASE y.sg = 0 -> Flt(FInt(1), x.np \/ y.np)
      [] y.sg = 1 /\ x.sg = 0 -> Flt(FZero, x.np \/ y.np)
      [] y.sg # 0 /\ x.sg = 1 /\ y.e >= -117 /\ y.e <= 10 ->
            Flt(PowExp(Run(PowCode,
                           PowRegs(x, y, IF x.h - 2^24 >= 6903120 THEN 1 ELSE 0,
                                   ((x.h - 6903120) % 2^24) \div 2^17 + 1,
                                   PowLogData, ExpData))),
                x.np \/ y.np)
      [] y.sg # 0 /\ x.sg = -1 /\ (y.e >= 0 \/ (y.e >= -52 /\ ~Lost(Mant(y), -y.e))) ->
            [FPow(FAbs(x), y) EXCEPT
                !.sg = IF y.e <= 0 /\ BitAt(Mant(y), -y.e) = 1 THEN -@ ELSE @]
(***************************************************************************)
(* Vapour pressure table (app.py 30-51).                                   *)
(***************************************************************************)
\* PRESSAO_VAPOR_AGUA: the value in Pa at 0, 5, ..., 100 degC, in key order.
PRESSAO_VAPOR_AGUA ==
    << 611, 872, 1228, 1705, 2338, 3169, 4246, 5628, 7384, 9593, 12349,
       15758, 19946, 25043, 31201, 38595, 47414, 57867, 70182, 84608, 101325 >>

\* sorted(PRESSAO_VAPOR_AGUA.keys()): the i-th key (i from 1), degC.
temps(i) == 5 * (i - 1)

\* The value returned when the loop finds no bracket.
PvFallback == 2338

\* p1 + (p2-p1)*(temp-t1)/(t2-t1) for the bracket that starts at the key i.
Interpolate(temp, i) ==
    FAdd(FInt(PRESSAO_VAPOR_AGUA[i]),
         FDiv(FMul(FInt(PRESSAO_VAPOR_AGUA[i + 1] - PRESSAO_VAPOR_AGUA[i]),
                   FSub(temp, FInt(temps(i)))),
              FInt(temps(i + 1) - temps(i))))

\* PvLoop with the bracket test made strict: a temperature on a calibration
\* point finds no bracket.
RECURSIVE PvLoopStrict(_, _)
PvLoopStrict(temp, i) ==
    IF i > Len(PRESSAO_VAPOR_AGUA) - 1 THEN FInt(PvFallback)
    ELSE IF FLt(FInt(temps(i)), temp) /\ FLt(temp, FInt(temps(i + 1)))
         THEN Interpolate(temp, i)
         ELSE PvLoopStrict(temp, i + 1)

\* The loop of get_pressao_vapor from index i (1-based): the first i with
\* temps[i] <= temp <= temps[i+1] gives the interpolation.
RECURSIVE PvLoop(_, _)
PvLoop(temp, i) ==
    IF i > Len(PRESSAO_VAPOR_AGUA) - 1 THEN FInt(PvFallback)
    ELSE IF FLe(FInt(temps(i)), temp) /\ FLe(temp, FInt(temps(i + 1)))
         THEN Interpolate(temp, i)
         ELSE PvLoop(temp, i + 1)

get_pressao_vapor(temp) ==
    IF FLe(temp, FZero) THEN FInt(PRESSAO_VAPOR_AGUA[1])
    ELSE IF FGe(temp, FInt(100))
         THEN FInt(PRESSAO_VAPOR_AGUA[Len(PRESSAO_VAPOR_AGUA)])
         ELSE PvLoop(temp, 1)

(***************************************************************************)
(* Pipe-segment functions (app.py 54-77).  x ** 2 of a Python float is     *)
(* x * x rounded.                                                          *)
(***************************************************************************)
\* np.pi.
Pi == Raw(1, << 26353589, 71576856 >>, -51)

\* 9.81.
G == FDec(981, 100)

\* 1e-12, the floor of the Reynolds number in the laminar formula.
ReFloor == FDiv(FInt(1), FMul(FInt(10^6), FInt(10^6)))

\* velocity(Q, D): Q / (np.pi * (D ** 2) / 4) if D > 0 else 0.
velocity(Q, D) ==
    IF FGt(D, FZero) THEN FDiv(Q, FDiv(FMul(Pi, FPow(D, FInt(2))), FInt(4)))
    ELSE FZero

\* reynolds(rho, v, D, mu): rho * v * D / mu if mu > 0 else 0.
reynolds(rho, v, D, mu) ==
    IF FGt(mu, FZero) THEN FDiv(FMul(FMul(rho, v), D), mu) ELSE FZero

\* The Reynolds number below which friction_factor is laminar.
LaminarLimit == 2000

\* rugosidades.get(material, 0.045), in mm.
rugosidades(material) ==
    CASE material = "pvc" -> FDec(15, 10000)
      [] material = "aco_novo" -> FDec(45, 1000)
      [] material = "ferro_fundido" -> FDec(26, 100)
      [] material = "aco_comercial" -> FDec(46, 1000)
      [] OTHER -> FDec(45, 1000)

\* e / (3.7 * D), e = rugosidades.get(material, 0.045) / 1000.
RelRough(material, D) ==
    FDiv(FDiv(rugosidades(material), FInt(1000)), FMul(FDec(37, 10), D))

\* (-2 * np.log10(arg)) ** (-2), 0 < arg < 1.
InvSqLog(arg) == FPow(FMul(FInt(-2), FLog10(arg)), FInt(-2))

\* The explicit (Swamee-Jain) formula of friction_factor, Re > 0 and D > 0.
SwameeJain(Re, D, material) ==
    InvSqLog(FAdd(RelRough(material, D),
                  FDiv(FDec(574, 100), FPow(Re, FDec(9, 10)))))

\* friction_factor(Re, D, material).
friction_factor(Re, D, material) ==
    IF FLt(Re, FInt(LaminarLimit))
    THEN FDiv(FInt(64), FMax(Re, ReFloor))
    ELSE SwameeJain(Re, D, material)

(***************************************************************************)
(* The iterative friction-factor policy of the specification (4.2 b): the  *)
(* Colebrook-White equation solved by fixed-point iteration on f, with the *)
(* explicit formula as the fallback.  app.py has no such solver.           *)
(***************************************************************************)
\* The most iterations.
CWMaxIter == 200

\* The tolerance, 1e-8.
CWTolerance == FDec(1, 10^8)

\* One iteration: (-2 * log10(e/(3.7*D) + 2.51/(Re*sqrt(f)))) ** (-2).
CWStep(f, Re, D, material) ==
    InvSqLog(FAdd(RelRough(material, D),
                  FDiv(FDec(251, 100), FMul(Re, FPow(f, FDec(1, 2))))))

\* The iteration: st is << n, f >>, n iterations done and f the value they
\* gave; it ends when two successive values are within the tolerance.  A value that is not positive (a numeric error) and the iteration
\* count running out fall back to the explicit formula.
RECURSIVE CWIterate(_, _, _, _)
CWNext(Re, D, material, st, next) ==
    IF FLt(FAbs(FSub(next, st[2])), CWTolerance) THEN next
    ELSE CWIterate(Re, D, material, << st[1] + 1, next >>)

CWIterate(Re, D, material, st) ==
    IF st[1] >= CWMaxIter \/ ~FGt(st[2], FZero) THEN SwameeJain(Re, D, material)
    ELSE CWNext(Re, D, material, st, CWStep(st[2], Re, D, material))

\* The turbulent friction factor under the policy "iterative-with-fallback",
\* from the starting value f0 = 0.02.
ColebrookWhite(Re, D, material) ==
    CWIterate(Re, D, material, << 0, FDec(2, 100) >>)

\* hf_distributed raises ZeroDivisionError on L / D when D = 0.
hf_distributed_raises(L, D, v, f) == D.sg = 0

\* hf_distributed(L, D, v, f) for D # 0: f * (L/D) * (v**2)/(2*9.81).
hf_distributed(L, D, v, f) ==
    FDiv(FMul(FMul(f, FDiv(L, D)), FPow(v, FInt(2))), FMul(FInt(2), G))

\* hf_local(K, v): K * (v**2)/(2*9.81).
hf_local(K, v) == FDiv(FMul(K, FPow(v, FInt(2))), FMul(FInt(2), G))

\* npsha(Patm, Pvap, rho, g, P_suc, hs, hf_suc, v).
npsha(Patm, Pvap, rho, g, P_suc, hs, hf_suc, v) ==
    FSub(FSub(FAdd(FSub(FDiv(P_suc, FMul(rho, g)), FDiv(Pvap, FMul(rho, g))),
                   hs),
              hf_suc),
         FDiv(FPow(v, FInt(2)), FMul(FInt(2), g)))

(***************************************************************************)
(* Dictionaries of the request.                                            *)
(***************************************************************************)
\* d.get(key, default) for a key held as <<>> (absent) or <<x>>.
Get(opt, default) == IF opt = <<>> THEN default ELSE opt[1]

\* Standard atmosphere, Pa: the default pressao_atm, and the pressure
\* calculate_hmt_for_scenario gives an open reservoir.
Atm == 101325

\* The default diameter of a segment, 0.1 m.
DefaultD == FDec(1, 10)

\* The pressure of a leg's reservoir over the atmospheric pressure patm.
ReservoirPressure(leg, patm) ==
    IF leg.tipo_reservatorio = "pressurizado"
    THEN FAdd(patm, leg.pressao_manometrica)
    ELSE patm

\* leg.get("nivel_nominal", leg.get(alt, 0)), alt being "hs" or "hr".
NivelNominal(leg) == Get(leg.nivel_nominal, Get(leg.nivel_alt, FZero))

\* NivelMin reading the key "nivel_max".
NivelMinSwapped(leg) == Get(leg.nivel_max, NivelNominal(leg))

NivelMin(leg) == Get(leg.nivel_min, NivelNominal(leg))

\* NivelMax reading the key "nivel_min".
NivelMaxSwapped(leg) == Get(leg.nivel_min, NivelNominal(leg))

NivelMax(leg) == Get(leg.nivel_max, NivelNominal(leg))

(***************************************************************************)
(* The segments, flows and fluids of the requests and of the direct calls. *)
(***************************************************************************)
Seg(L, D, material, conexoes) ==
    [L |-> L, D |-> D, material |-> material, conexoes |-> conexoes]

\* 10 m and 50 m of 100 mm PVC (the suction and discharge of scenario 1), a
\* segment with no diameter, one with a negative diameter, a narrow one.
SegSuc == Seg(FInt(10), FDec(1, 10), "pvc", 2)

SegRec == Seg(FInt(50), FDec(1, 10), "pvc", 5)

SegZero == Seg(FInt(10), FZero, "pvc", 2)

SegNeg == Seg(FInt(10), FDec(-5, 100), "pvc", 2)

SegNarrow == Seg(FInt(10), FDec(5, 100), "ferro_fundido", 1)

\* Flows, m3/s: none, a trickle, 0.01 and 0.02.
Trickle == FDec(1, 10000)

\* Viscosities, Pa.s: not positive, water, at and over 10 cP and 100 cP, and
\* a syrup of 2000 cP.
Water == FDec(1, 1000)

Syrup == FInt(2)

MuSet ==
    { FDec(-1, 1000), FZero, Water, FDec(1, 100), FDec(15, 1000),
      FDec(1, 10), FDec(12, 100), Syrup }

\* The density, kg/m3.
Rho == FInt(1000)

(***************************************************************************)
(* The loop over a leg's segments (app.py 97-106, 124-133, 215-225 and     *)
(* 265-275): the two loss sums and the largest velocity, or the exception  *)
(* of the first segment with D = 0.                                        *)
(***************************************************************************)
\* The end of the loop body for the segment t, v and f being its velocity
\* and friction factor: the velocity and the two losses, or the exception.
SegLoss(t, v, f) ==
    IF hf_distributed_raises(t.L, t.D, v, f)
    THEN [raised |-> TRUE, v |-> v, hf |-> FZero, hl |-> FZero]
    ELSE [raised |-> FALSE, v |-> v,
          hf |-> hf_distributed(t.L, t.D, v, f),
          hl |-> hf_local(FMul(FDec(5, 10), FInt(t.conexoes)), v)]

\* The loop body for the segment t: v, then Re and f from v.
SegBody(Q, t, rho, mu) ==
    CHOOSE s \in { SegLoss(t, vf[1], vf[2]) :
                      vf \in { << v, friction_factor(reynolds(rho, v, t.D, mu),
                                                     t.D, t.material) >> :
                                   v \in { velocity(Q, t.D) } } } : TRUE

\* The loop body computed once for every flow, segment and fluid above: the
\* program computes the same values again in every scenario.
SegmentRows ==
    { << k, SegBody(k[1], k[2], k[3], k[4]) >> :
          k \in { FZero, Trickle, FDec(1, 100), FDec(2, 100) }
                  \X { SegSuc, SegRec, SegZero, SegNeg, SegNarrow }
                  \X { Rho } \X MuSet }

NoLosses == [raised |-> FALSE, hf |-> FZero, hl |-> FZero, vmax |-> FZero]

\* The sums with the loop body s of a segment added.
SegAdd(acc, s) ==
    IF s.raised THEN [acc EXCEPT !.raised = TRUE]
    ELSE [raised |-> FALSE,
          hf   |-> FAdd(acc.hf, s.hf),
          hl   |-> FAdd(acc.hl, s.hl),
          vmax |-> FMax(acc.vmax, s.v)]

\* One pass of the loop: the body of the segment t, then the sums.
SegStep(acc, Q, t, rho, mu) ==
    CHOOSE a \in { SegAdd(acc, row[2]) :
                      row \in { r \in SegmentRows : r[1] = << Q, t, rho, mu >> } } :
        TRUE

RECURSIVE LegLoop(_, _, _, _, _, _)
LegLoop(Q, trechos, rho, mu, i, acc) ==
    IF acc.raised \/ i > Len(trechos) THEN acc
    ELSE LegLoop(Q, trechos, rho, mu, i + 1,
                 SegStep(acc, Q, trechos[i], rho, mu))

LegLosses(Q, trechos, rho, mu) == LegLoop(Q, trechos, rho, mu, 1, NoLosses)

(***************************************************************************)
(* calculate_hmt_for_scenario (app.py 79-140).  destino_idx counts from 1. *)
(* The value is [raised, value]: raised when a segment has D = 0.          *)
(***************************************************************************)
\* Lines 135-140: ls and lr are the losses of the two legs, dP = P_rec - P_suc.
HmtSum(ls, lr, dP, rho, delta_h) ==
    IF ls.raised \/ lr.raised THEN [raised |-> TRUE, value |-> FZero]
    ELSE [raised |-> FALSE,
          value |-> FAdd(FAdd(FDiv(dP, FMul(rho, G)), delta_h),
                         FAdd(FAdd(FAdd(ls.hf, ls.hl), lr.hf), lr.hl))]

\* Lines 108-140, rec being the destination chosen.
HmtFor(q_val, suc, rec, rho, mu, nivel_suc, nivel_rec) ==
    CHOOSE h \in { HmtSum(ls, lr,
                          FSub(ReservoirPressure(rec, FInt(Atm)),
                               ReservoirPressure(suc, FInt(Atm))),
                          rho, FSub(nivel_rec, nivel_suc)) :
                      ls \in { LegLosses(q_val, Get(suc.trechos, <<>>), rho, mu) },
                      lr \in { LegLosses(q_val, rec.trechos, rho, mu) } } : TRUE

\* The destination is recalques[destino_idx] if destino_idx < len(recalques)
\* else recalques[0].
calculate_hmt_for_scenario(q_val, data, fluido, nivel_suc, nivel_rec, destino_idx) ==
    IF FLe(q_val, FZero) THEN [raised |-> FALSE, value |-> FZero]
    ELSE HmtFor(q_val, data.suc,
                IF destino_idx <= Len(data.recalque)
                THEN data.recalque[destino_idx] ELSE data.recalque[1],
                fluido.densidade, fluido.viscosidade, nivel_suc, nivel_rec)


(***************************************************************************)
(* POST /api/calcular (app.py 144-565).                                    *)
(***************************************************************************)
\* The body for which "not data" holds.
NoData == [empty |-> TRUE]

\* Thresholds of the validation rules: cP, m/s, m.
ViscAlerta == 10

ViscImpeditivo == 100

VSucBaixa == FDec(5, 10)

VSucAlta == FInt(3)

VRecAlta == FInt(5)

HmtCritico == 200

HmtImpeditivo == 300

\* The cavitation margin, 0.5 m.
MargemNPSH == FDec(5, 10)

\* The points of each of the three curves of the chart.
PlotPoints == 100

Warn(nivel, categoria) == [nivel |-> nivel, categoria |-> categoria]

\* l + [x] when cond holds, l otherwise.
AppendIf(l, cond, x) == IF cond THEN Append(l, x) ELSE l

\* The number that f"{x:.2f}" prints.
Format2(x) == PyRound(float(x), 2)

\* min(r['NPSHa'] for r in resultados_destinos) from the i-th result on, m
\* being the smallest before it.
RECURSIVE MinNPSHa(_, _, _)
MinNPSHa(rs, i, m) ==
    IF i > Len(rs) THEN m ELSE MinNPSHa(rs, i + 1, FMin(m, rs[i].NPSHa))

\* What the loop over the destinations (app.py 246-307) has built so far:
\* exatos keeps the values of each result before rounding.
LoopStart == [raised |-> "none", resultados |-> <<>>, exatos |-> <<>>,
              Hmt_max |-> FZero, warnings |-> <<>>, hmt_calls |-> 0,
              loops |-> 0]

\* CavOk with the comparison made weak: equality counts as safe.
CavOkWeak(NPSHa_val, NPSHr_user) ==
    FGe(float(NPSHa_val), float(FAdd(NPSHr_user, MargemNPSH)))

\* cav_ok (line 295).
CavOk(NPSHa_val, NPSHr_user) ==
    FGt(float(NPSHa_val), float(FAdd(NPSHr_user, MargemNPSH)))

\* Lines 290-307: the result of destination idx appended.  pior, nom and
\* melhor are the three heads, lr the losses of the destination's leg.
DestResult(acc, idx, lr, pior, nom, melhor, NPSHa_val, cav_ok) ==
    [raised     |-> "none",
     resultados |-> Append(acc.resultados,
                       [destino_id    |-> idx,
                        Hmt_pior      |-> float(round(pior, 2)),
                        Hmt_nominal   |-> float(round(nom, 2)),
                        Hmt_melhor    |-> float(round(melhor, 2)),
                        hf_rec        |-> float(round(lr.hf, 4)),
                        hl_rec        |-> float(round(lr.hl, 4)),
                        v_rec_max     |-> float(round(lr.vmax, 2)),
                        NPSHa         |-> float(round(NPSHa_val, 2)),
                        cavitation_ok |-> cav_ok]),
     exatos     |-> Append(acc.exatos,
                       [Hmt_pior |-> pior, Hmt_nom |-> nom,
                        Hmt_melhor |-> melhor, NPSHa_val |-> NPSHa_val]),
     Hmt_max    |-> FMax(acc.Hmt_max, pior),
     warnings   |-> acc.warnings,
     hmt_calls  |-> acc.hmt_calls + 3,
     loops      |-> acc.loops]

\* Lines 292-295, with the NPSHa of the destination.
DestNPSH(c, suc, acc, idx, lr, pior, nom, melhor, NPSHa_val) ==
    DestResult(acc, idx, lr, pior, nom, melhor, NPSHa_val,
               CavOk(NPSHa_val, c.NPSHr))

\* Lines 286-295: the three heads are known; "trechos" of the suction, when
\* present and empty, raises IndexError, and the diameter of the suction is
\* suc.get("trechos", [{}])[0].get("D", 0.1).
DestHeads(c, suc, acc, idx, lr, pior, nom, melhor) ==
    IF pior.raised \/ nom.raised \/ melhor.raised
    THEN [acc EXCEPT !.raised = "ZeroDivisionError", !.hmt_calls = @ + 1]
    ELSE IF Get(suc.trechos, <<[D |-> DefaultD]>>) = <<>>
    THEN [acc EXCEPT !.raised = "IndexError", !.hmt_calls = @ + 3,
                     !.Hmt_max = FMax(@, pior.value)]
    ELSE CHOOSE r \in
             { DestNPSH(c, suc, acc, idx, lr, pior.value, nom.value,
                        melhor.value, NPSHa_val) :
                   NPSHa_val \in
                       { npsha(c.Patm, c.Pvap, c.rho, G, c.P_suc, c.nivel_suc_min,
                               c.hf_suc,
                               velocity(c.Q, Get(suc.trechos,
                                                 <<[D |-> DefaultD]>>)[1].D)) } } :
             TRUE

\* Lines 251-288 for the destination rec of index idx, lr being the losses of
\* its leg.  c holds the handler's locals set before the loop.
DestStep(data, c, idx, acc, rec, lr) ==
    IF lr.raised
    THEN [acc EXCEPT !.raised = "ZeroDivisionError", !.loops = @ + 1]
    ELSE CHOOSE r \in
             { DestHeads(c, data.suc, a, idx, lr, pior, nom, melhor) :
                   a \in { [acc EXCEPT !.loops = @ + 1,
                                       !.warnings =
                                           AppendIf(@, FGt(lr.vmax, VRecAlta),
                                                    Warn("ALERTA", "Velocidade"))] },
                   pior \in { calculate_hmt_for_scenario(c.Q, data, data.fluido,
                                  c.nivel_suc_min, NivelMax(rec), idx) },
                   nom \in { calculate_hmt_for_scenario(c.Q, data, data.fluido,
                                 c.nivel_suc_nom, NivelNominal(rec), idx) },
                   melhor \in { calculate_hmt_for_scenario(c.Q, data, data.fluido,
                                    c.nivel_suc_max, NivelMin(rec), idx) } } :
             TRUE

RECURSIVE DestLoop(_, _, _, _)
DestLoop(data, c, idx, acc) ==
    IF acc.raised # "none" \/ idx > Len(data.recalque) THEN acc
    ELSE DestLoop(data, c, idx + 1,
             CHOOSE a \in
                 { DestStep(data, c, idx, acc, data.recalque[idx], lr) :
                       lr \in { LegLosses(c.Q, data.recalque[idx].trechos,
                                          c.rho, c.mu) } } : TRUE)

\* The handler's locals when it returns before the calculation.
NotStarted == [raised |-> "none", hmt_calls |-> 0, loops |-> 0,
               warnings |-> <<>>, errors |-> <<>>, recomendacoes |-> <<>>,
               resultados |-> <<>>, exatos |-> <<>>, Hmt |-> FZero]

Failure(code, message) == [status |-> "error", code |-> code, message |-> message]

\* The handler's locals at its end; loop is what the loop built.
LocalsAt(raised, calls, loop, Hmt, ws, es, rs) ==
    [raised |-> raised, hmt_calls |-> calls, loops |-> 1 + loop.loops,
     warnings |-> ws, errors |-> es, recomendacoes |-> rs,
     resultados |-> loop.resultados, exatos |-> loop.exatos, Hmt |-> Hmt]

\* Lines 546-560: the body of the success response, with P_bar = Hmt *
\* 0.0981 and P_hid_W / 1000, P_hid_W = rho * g * Q * Hmt.
Success(c, loop, Hmt, ws, es, rs) ==
    [status |-> IF es = <<>> THEN "ok" ELSE "warning",
     code |-> 200,
     temperatura |-> c.temp,
     viscosidade_cp |-> c.mu_cp,
     H_mt_nominal |-> float(round(Hmt, 2)),
     pressao_bar |-> float(round(FMul(Hmt, FDec(981, 10000)), 2)),
     P_hid_kW |-> float(round(FDiv(FMul(FMul(FMul(c.rho, G), c.Q), Hmt),
                                   FInt(1000)), 2)),
     velocidade_succao |-> float(round(c.v_suc_max, 2)),
     resultados_destinos |-> loop.resultados,
     warnings |-> ws,
     errors |-> es,
     recomendacoes |-> rs]

\* Lines 350-353: the first two recommendations.
Recomendacoes2(Hmt) ==
    << [texto |-> "Bomba com Hmt >=", valor |-> Format2(Hmt)],
       [texto |-> "Verificar curva do fabricante", valor |-> FZero] >>

\* Lines 355-565: the chart (three curves of PlotPoints calls each), the
\* report and the upload, then the response.
Deliver(c, io_ok, loop, Hmt, ws, es, rs) ==
    IF ~io_ok
    THEN [response |-> Failure(500, "IOError"),
          locals |-> LocalsAt("IOError", loop.hmt_calls + 3 * PlotPoints,
                              loop, Hmt, ws, es, rs)]
    ELSE [response |-> Success(c, loop, Hmt, ws, es, rs),
          locals |-> LocalsAt("none", loop.hmt_calls + 3 * PlotPoints,
                              loop, Hmt, ws, es, rs)]

\* The third recommendation.
Recomendacao3(rs) ==
    [texto |-> "NPSHr da bomba <=",
     valor |-> Format2(FSub(MinNPSHa(rs, 2, rs[1].NPSHa), MargemNPSH))]

\* Recommend with a default for min() of no result (min(..., default=0)).
RecommendDefault(c, io_ok, loop, Hmt, ws, es) ==
    Deliver(c, io_ok, loop, Hmt, ws, es,
            Append(Recomendacoes2(Hmt),
                   IF loop.resultados = <<>>
                   THEN [texto |-> "NPSHr da bomba <=",
                         valor |-> Format2(FNeg(MargemNPSH))]
                   ELSE Recomendacao3(loop.resultados)))

\* Lines 350-353: min() of no result raises ValueError.
Recommend(c, io_ok, loop, Hmt, ws, es) ==
    IF loop.resultados = <<>>
    THEN [response |-> Failure(500, "ValueError"),
          locals |-> LocalsAt("ValueError", 0, loop, Hmt, ws, es,
                              Recomendacoes2(Hmt))]
    ELSE Deliver(c, io_ok, loop, Hmt, ws, es,
                 Append(Recomendacoes2(Hmt), Recomendacao3(loop.resultados)))

\* Lines 332-348: the cavitation and the multiple-destinations rules.
RulesAfter(c, io_ok, loop, Hmt, n, ws, es) ==
    Recommend(c, io_ok, loop, Hmt,
        AppendIf(AppendIf(ws, \E i \in 1..Len(loop.resultados) :
                                  ~loop.resultados[i].cavitation_ok,
                          Warn("CRITICO", "Cavitacao")),
                 n > 1, Warn("OBRIGATORIO", "Sistema")),
        es)

\* PressureRules with the thresholds included (>= for >).
PressureRulesWeak(c, io_ok, loop, Hmt, n, e1) ==
    RulesAfter(c, io_ok, loop, Hmt, n,
        AppendIf(loop.warnings, FGe(Hmt, FInt(HmtCritico)),
                 Warn("CRITICO", "Pressao")),
        AppendIf(e1, FGe(Hmt, FInt(HmtImpeditivo)),
                 Warn("IMPEDITIVO", "Pressao")))

\* Lines 309-330: the governing head and the two pressure rules.  n is
\* len(recalques), e1 the errors list before the loop.
PressureRules(c, io_ok, loop, Hmt, n, e1) ==
    RulesAfter(c, io_ok, loop, Hmt, n,
        AppendIf(loop.warnings, FGt(Hmt, FInt(HmtCritico)),
                 Warn("CRITICO", "Pressao")),
        AppendIf(e1, FGt(Hmt, FInt(HmtImpeditivo)),
                 Warn("IMPEDITIVO", "Pressao")))

\* Lines 309-353 and on, or the exception the loop raised.
AfterLoop(c, io_ok, loop, n, e1) ==
    IF loop.raised # "none"
    THEN [response |-> Failure(500, loop.raised),
          locals |-> LocalsAt(loop.raised, loop.hmt_calls, loop, loop.Hmt_max,
                              loop.warnings, e1, <<>>)]
    ELSE PressureRules(c, io_ok, loop, loop.Hmt_max, n, e1)

\* Lines 227-307: the suction velocity rules and the loop.  ls is the losses
\* of the suction leg, w1 and e1 the lists after the viscosity rules.
AfterSuction(data, c, io_ok, ls, w1, e1) ==
    IF ls.raised
    THEN [response |-> Failure(500, "ZeroDivisionError"),
          locals |-> [NotStarted EXCEPT !.raised = "ZeroDivisionError",
                         !.loops = 1, !.warnings = w1, !.errors = e1]]
    ELSE CHOOSE r \in
             { AfterLoop(c2, io_ok, loop, Len(data.recalque), e1) :
                   c2 \in { [c EXCEPT !.hf_suc = ls.hf, !.v_suc_max = ls.vmax] },
                   loop \in
                       { DestLoop(data,
                             [c EXCEPT !.hf_suc = ls.hf, !.v_suc_max = ls.vmax], 1,
                             [LoopStart EXCEPT !.warnings =
                                 AppendIf(AppendIf(w1, FLt(ls.vmax, VSucBaixa),
                                                   Warn("ATENCAO", "Velocidade")),
                                          FGt(ls.vmax, VSucAlta),
                                          Warn("CRITICO", "Velocidade"))]) } } :
             TRUE

\* Lines 164-225: the viscosity rules, the suction pressure and levels, the
\* losses of the suction leg.
Calculate(data, c, io_ok) ==
    CHOOSE r \in
        { AfterSuction(data, c, io_ok, ls, w1, e1) :
              ls \in { LegLosses(c.Q, Get(data.suc.trechos, <<>>), c.rho, c.mu) },
              w1 \in { AppendIf(<<>>, FGt(c.mu_cp, FInt(ViscAlerta)),
                                Warn("ALERTA", "Viscosidade")) },
              e1 \in { AppendIf(<<>>, FGt(c.mu_cp, FInt(ViscImpeditivo)),
                                Warn("IMPEDITIVO", "Viscosidade")) } } : TRUE

\* VazaoInvalida with the comparison made strict: a zero flow passes.
VazaoInvalidaStrict(Q) == FLt(Q, FZero)

\* Whether the handler rejects the flow Q (line 161).
VazaoInvalida(Q) == FLe(Q, FZero)

\* Lines 152-210: the handler's locals read from the body.
Locals(data) ==
    [Q      |-> Get(data.Q, FZero),
     rho    |-> data.fluido.densidade,
     mu     |-> data.fluido.viscosidade,
     mu_cp  |-> FMul(data.fluido.viscosidade, FInt(1000)),
     temp   |-> data.fluido.temperatura,
     Pvap   |-> get_pressao_vapor(data.fluido.temperatura),
     Patm   |-> data.fluido.pressao_atm,
     P_suc  |-> ReservoirPressure(data.suc, data.fluido.pressao_atm),
     NPSHr  |-> data.NPSHr,
     nivel_suc_nom |-> NivelNominal(data.suc),
     nivel_suc_min |-> NivelMin(data.suc),
     nivel_suc_max |-> NivelMax(data.suc),
     hf_suc |-> FZero,
     v_suc_max |-> FZero]

\* The run of the handler on the body data; io_ok says whether the chart,
\* the report and its upload (external collaborators) all succeed.  The
\* value is [response, locals].
Handle(data, io_ok) ==
    IF data = NoData
    THEN [response |-> Failure(400, "JSON invalido"), locals |-> NotStarted]
    ELSE IF VazaoInvalida(Get(data.Q, FZero))
    THEN [response |-> Failure(400, "Vazao deve ser > 0"), locals |-> NotStarted]
    ELSE CHOOSE r \in { Calculate(data, c, io_ok) : c \in { Locals(data) } } :
             TRUE

(***************************************************************************)
(* The requests the model sends.                                           *)
(***************************************************************************)
\* The most destinations a request declares.
MaxDest == 2

Leg(tipo, pman, nom, min, max, trechos) ==
    [tipo_reservatorio |-> tipo, pressao_manometrica |-> pman,
     nivel_nominal |-> nom, nivel_alt |-> <<>>, nivel_min |-> min,
     nivel_max |-> max, trechos |-> trechos]

\* An open reservoir with one level and no segment list: NPSHa is computed
\* without a friction loss.
SucPlain == Leg("aberto", FZero, <<FZero>>, <<>>, <<>>, <<>>)

\* The scenario-1 suction with its levels out of the nominal one.
SucLevels ==
    Leg("aberto", FZero, <<FZero>>, <<FDec(-21, 10)>>, <<FDec(11, 10)>>,
        << <<SegSuc>> >>)

\* Suction legs: "trechos" absent, empty, and of one or two segments; levels
\* given in order, out of order, or only as "hs"; a tank under vacuum.
SucSet ==
    { Leg("aberto", FZero, <<FZero>>, <<>>, <<>>, tr) :
          tr \in { <<>>, << <<>> >>, << <<SegSuc>> >>, << <<SegZero>> >>,
                   << <<SegNeg>> >>, << <<SegNarrow, SegSuc>> >> } }
    \cup { SucLevels,
           Leg("aberto", FZero, <<FZero>>, <<FDec(15, 10)>>, <<FDec(-15, 10)>>,
               <<>>),
           Leg("pressurizado", FInt(-80000), <<FInt(1)>>, <<>>, <<>>,
               << <<SegSuc>> >>),
           [Leg("aberto", FZero, <<>>, <<>>, <<>>, << <<SegSuc>> >>)
               EXCEPT !.nivel_alt = <<FDec(-5766, 1000)>>] }

\* Destinations: scenario 1 (20 m up, through 50 m of pipe); a tank under
\* vacuum below the suction; levels that reach the pressure thresholds;
\* levels out of order (the highest level is the "minimum"); a pressurized
\* tank behind a narrow pipe; a segment with no diameter; two levels that
\* bring the head of 0.02 m3/s of water just over 200 m and over 300 m.
DestSet ==
    { Leg("aberto", FZero, <<FInt(20)>>, <<>>, <<>>, <<SegRec>>),
      Leg("pressurizado", FInt(-49050), <<FInt(-10)>>, <<>>, <<>>, <<>>),
      Leg("aberto", FZero, <<FDec(20005, 100)>>, <<FInt(150)>>, <<FInt(300)>>,
          <<>>),
      Leg("aberto", FZero, <<FDec(25005, 100)>>, <<FInt(350)>>, <<FInt(200)>>,
          <<>>),
      Leg("pressurizado", FInt(98100), <<FInt(295)>>, <<>>, <<>>,
          <<SegNarrow, SegRec>>),
      Leg("aberto", FZero, <<FInt(20)>>, <<>>, <<>>, <<SegZero>>),
      Leg("aberto", FZero, <<FDec(195872, 1000)>>, <<>>, <<>>, <<SegRec>>),
      Leg("aberto", FZero, <<FDec(295872, 1000)>>, <<>>, <<>>, <<SegRec>>) }

\* The lists of at most n destinations.
RECURSIVE DestLists(_)
DestLists(n) ==
    IF n = 0 THEN { <<>> }
    ELSE LET shorter == DestLists(n - 1)
         IN  shorter \cup { Append(l, d) : l \in { x \in shorter : Len(x) = n - 1 },
                                           d \in DestSet }

Body(mu, q, s, r, n) ==
    [fluido |-> [densidade |-> Rho, viscosidade |-> mu,
                 temperatura |-> FInt(20), pressao_atm |-> FInt(Atm)],
     Q |-> q, suc |-> s, recalque |-> r, NPSHr |-> n]

\* The default NPSHr, 3.0 m.
DefaultNPSHr == FInt(3)

\* The required NPSH that is exactly the margin below the NPSHa of 0.02 m3/s
\* of water out of the suction SucPlain.
TightNPSHr ==
    FSub(npsha(FInt(Atm), get_pressao_vapor(FInt(20)), Rho, G, FInt(Atm), FZero,
               FZero, velocity(FDec(2, 100), DefaultD)),
         MargemNPSH)

\* Requests with the flow 0.02 m3/s and at most one destination; with more
\* destinations; with the flow absent, zero or negative; with a trickle of
\* syrup; with other required NPSH.
Requests ==
    { Body(mu, <<FDec(2, 100)>>, s, r, DefaultNPSHr) :
          mu \in MuSet, s \in SucSet, r \in DestLists(1) }
    \cup { Body(mu, <<FDec(2, 100)>>, s, r, DefaultNPSHr) :
               mu \in { Water, FDec(12, 100) }, s \in { SucPlain, SucLevels },
               r \in DestLists(MaxDest) }
    \cup { Body(mu, q, s, r, DefaultNPSHr) :
               mu \in { Water, FDec(12, 100) },
               q \in { <<>>, <<FZero>>, <<FDec(-5, 1000)>> },
               s \in SucSet, r \in DestLists(1) }
    \cup { Body(Syrup, <<Trickle>>, s, r, DefaultNPSHr) :
               s \in SucSet, r \in DestLists(1) }
    \cup { Body(Water, <<FDec(2, 100)>>, s, r, n) :
               s \in SucSet, r \in DestLists(1),
               n \in { FZero, FDec(55, 10), FDec(8765, 1000), FInt(9),
                       TightNPSHr } }
    \cup { NoData }

(***************************************************************************)
(* The service.  The handler keeps nothing between requests, so a          *)
(* behaviour is one request: it arrives (Init) and is handled.             *)
(***************************************************************************)
Pending == [status |-> "pending"]

Init ==
    /\ request \in Requests
    /\ response = Pending
    /\ locals = NotStarted
    /\ call = [fn |-> "none"]
    /\ result = FZero

api_calcular(io_ok) ==
    /\ response = Pending
    /\ \E h \in { Handle(request, io_ok) } :
           /\ response' = h.response
           /\ locals' = h.locals
    /\ UNCHANGED <<request, call, result>>

Next == \E io_ok \in BOOLEAN : api_calcular(io_ok)

Spec == Init /\ [][Next]_vars

(***************************************************************************)
(* Direct calls of the pure functions: a behaviour is one call, made with  *)
(* its arguments (Init) and then returning.                                *)
(***************************************************************************)
\* How far below 0 degC and above 100 degC the temperatures go, in steps of
\* 0.1 degC.
MaxTempOver == 50

InitVapor ==
    /\ request = NoData
    /\ response = Pending
    /\ locals = NotStarted
    /\ call \in { [fn |-> "get_pressao_vapor", state |-> "called",
                   temp |-> FDec(t, 10)] :
                      t \in (-MaxTempOver)..(1000 + MaxTempOver) }
    /\ result = FZero

call_get_pressao_vapor ==
    /\ call.fn = "get_pressao_vapor"
    /\ call.state = "called"
    /\ result' = get_pressao_vapor(call.temp)
    /\ call' = [call EXCEPT !.state = "returned"]
    /\ UNCHANGED <<request, response, locals>>

SpecVapor == InitVapor /\ [][call_get_pressao_vapor]_vars

\* The Reynolds numbers go up to MaxReHundreds hundreds in steps of 100.
MaxReHundreds == 30

\* Reynolds numbers: none, a fraction, one, the grid, each side of 2000 and
\* of 2300, and those of 0.02 m3/s of water or of a 15 cP fluid in 100 mm and
\* 50 mm pipes.
ReynoldsNumbers ==
    { FZero, FDec(3, 10), FInt(1), FInt(LaminarLimit - 1),
      FDec(20005, 10), FInt(2299), FInt(2301),
      FInt(16977), FInt(254648), FInt(509296) }
    \cup { FInt(100 * k) : k \in 1..MaxReHundreds }

InitFriction ==
    /\ request = NoData
    /\ response = Pending
    /\ locals = NotStarted
    /\ call \in { [fn |-> "friction_factor", state |-> "called",
                   Re |-> re, D |-> d, material |-> m] :
                      re \in ReynoldsNumbers,
                      d \in { FDec(5, 100), FDec(1, 10), FDec(2, 10) },
                      m \in { "pvc", "aco_novo", "ferro_fundido",
                              "aco_comercial", "outro" } }
    /\ result = FZero

call_friction_factor ==
    /\ call.fn = "friction_factor"
    /\ call.state = "called"
    /\ result' = friction_factor(call.Re, call.D, call.material)
    /\ call' = [call EXCEPT !.state = "returned"]
    /\ UNCHANGED <<request, response, locals>>

SpecFriction == InitFriction /\ [][call_friction_factor]_vars

\* The most segments of a leg in a direct call of calculate_hmt_for_scenario.
MaxSegs == 3

\* The sequences without repetition of at most n segments of the set S.
RECURSIVE SegLists(_, _)
SegLists(S, n) ==
    IF n = 0 THEN { <<>> }
    ELSE SegLists(S, n - 1)
           \cup UNION { { Append(l, t) : t \in { u \in S : \A i \in 1..Len(l) :
                                                              l[i] # u } } :
                            l \in { x \in SegLists(S, n - 1) : Len(x) = n - 1 } }

\* The suction legs of the direct calls: "trechos" absent, or a list of
\* segments of positive, negative or no diameter, in every order.
HmtSucSet ==
    { Leg("aberto", FZero, <<FZero>>, <<>>, <<>>, tr) :
          tr \in { <<>> }
                   \cup { <<l>> : l \in SegLists({ SegSuc, SegNeg, SegZero },
                                                  MaxSegs) } }

\* Their destinations: open or pressurized, segments in every order.
HmtDestSet ==
    { Leg(tipo, FInt(98100), <<FInt(20)>>, <<>>, <<>>, l) :
          tipo \in { "aberto", "pressurizado" },
          l \in SegLists({ SegRec, SegNarrow, SegSuc, SegZero }, MaxSegs) }

InitHmt ==
    /\ request = NoData
    /\ response = Pending
    /\ locals = NotStarted
    /\ call \in { [fn |-> "calculate_hmt_for_scenario", state |-> "called",
                   q_val |-> q,
                   data |-> Body(mu, <<FDec(2, 100)>>, s, r, DefaultNPSHr),
                   nivel_suc |-> ns, nivel_rec |-> FInt(20), destino_idx |-> idx] :
                      q \in { FDec(-5, 1000), FZero, FDec(1, 100), FDec(2, 100) },
                      mu \in { FZero, Water, FDec(12, 100) },
                      s \in HmtSucSet, ns \in { FZero, FInt(-2) },
                      r \in { <<d>> : d \in HmtDestSet }
                              \cup { << Leg("aberto", FZero, <<FInt(5)>>, <<>>,
                                             <<>>, <<>>), d >> :
                                           d \in HmtDestSet },
                      idx \in 1..2 }
    /\ call.destino_idx <= Len(call.data.recalque)
    /\ result = FZero

call_calculate_hmt_for_scenario ==
    /\ call.fn = "calculate_hmt_for_scenario"
    /\ call.state = "called"
    /\ result' = calculate_hmt_for_scenario(call.q_val, call.data, call.data.fluido,
                                            call.nivel_suc, call.nivel_rec,
                                            call.destino_idx)
    /\ call' = [call EXCEPT !.state = "returned"]
    /\ UNCHANGED <<request, response, locals>>

SpecHmt == InitHmt /\ [][call_calculate_hmt_for_scenario]_vars

(***************************************************************************)
(* Properties of the handler, checked under Spec.                          *)
(***************************************************************************)
\* The request has been handled.
Handled == response # Pending

\* The request carries a flow the handler accepts.
Accepted == request # NoData /\ FGt(Get(request.Q, FZero), FZero)

\* The handler returned the result (HTTP 200).
Succeeded == Handled /\ response.code = 200

\* How many entries of the list l have this level and category.
Count(l, nivel, categoria) ==
    Cardinality({ i \in 1..Len(l) : l[i] = Warn(nivel, categoria) })

\* The largest worst-case head of a non-empty list of exact results.
RECURSIVE MaxPior(_, _)
MaxPior(xs, i) ==
    IF i = Len(xs) THEN xs[i].Hmt_pior
    ELSE FMax(xs[i].Hmt_pior, MaxPior(xs, i + 1))

\* C1: for an accepted request with at least one destination, the governing
\* Hmt the handler reports is the maximum over the destinations of their
\* worst-case Hmt, whatever its sign.  The code starts the maximum at 0, so
\* it reports 0 when every worst-case Hmt is negative.
C1_GoverningIsMaxWorstCase ==
    (Succeeded /\ Accepted /\ Len(request.recalque) >= 1)
        => /\ FEq(locals.Hmt, MaxPior(locals.exatos, 1))
           /\ FEq(response.H_mt_nominal,
                  float(round(MaxPior(locals.exatos, 1), 2)))

\* C2: a request whose flow is absent, zero or negative is rejected with an
\* error (HTTP 400) before any evaluation: no call of
\* calculate_hmt_for_scenario, no loop over segments, and a response that
\* carries no result, warnings or recommendations.
C2_RejectedBeforeEvaluation ==
    (Handled /\ request # NoData /\ FLe(Get(request.Q, FZero), FZero))
        => /\ response.status = "error"
           /\ response.code = 400
           /\ DOMAIN response = { "status", "code", "message" }
           /\ locals.hmt_calls = 0
           /\ locals.loops = 0
           /\ locals.resultados = <<>>
           /\ locals.warnings = <<>>
           /\ locals.errors = <<>>
           /\ locals.recomendacoes = <<>>

\* C2 witness: a request with Q = 0 and a viscosity over 100 cP was rejected.
C2_Witness ==
    /\ Handled
    /\ request # NoData
    /\ request.Q = <<FZero>>
    /\ FGt(FMul(request.fluido.viscosidade, FInt(1000)), FInt(ViscImpeditivo))
    /\ response.code = 400

\* Some segment of the request has D <= 0, or its viscosity is not positive.
Degenerate(data) ==
    \/ FLe(data.fluido.viscosidade, FZero)
    \/ \E i \in 1..Len(Get(data.suc.trechos, <<>>)) :
           FLe(Get(data.suc.trechos, <<>>)[i].D, FZero)
    \/ \E j \in 1..Len(data.recalque) :
           \E i \in 1..Len(data.recalque[j].trechos) :
               FLe(data.recalque[j].trechos[i].D, FZero)

\* The request declares a destination and its suction "trechos" is absent or
\* not empty.
WellFormed(data) ==
    /\ Len(data.recalque) >= 1
    /\ data.suc.trechos # << <<>> >>

\* C3: with Q > 0, a segment with D <= 0 or a viscosity mu <= 0 never aborts
\* the calculation: the handler ends with the result (findings included),
\* not with a failure.  (Failures of the chart, report or upload are not the
\* calculation's.)  The code divides L by D, so D = 0 raises.
C3_DegenerateNeverAborts ==
    (Handled /\ Accepted /\ Degenerate(request) /\ WellFormed(request)
       /\ locals.raised # "IOError")
        => /\ locals.raised = "none"
           /\ response.code = 200

\* C4: each destination's cavitation flag is true iff the NPSHa computed for it
\* is strictly greater than NPSHr + 0.5 m (false on equality), and the
\* result carries the CRITICAL cavitation warning, once, iff some flag is
\* false.
C4_CavitationFlag ==
    Handled =>
        /\ \A i \in 1..Len(locals.resultados) :
               locals.resultados[i].cavitation_ok
                   <=> FGt(locals.exatos[i].NPSHa_val,
                           FAdd(request.NPSHr, MargemNPSH))
        /\ Succeeded =>
               Count(response.warnings, "CRITICO", "Cavitacao")
                   = IF \E i \in 1..Len(response.resultados_destinos) :
                            ~response.resultados_destinos[i].cavitation_ok
                     THEN 1 ELSE 0

\* C4 witness: a result whose NPSHa equals NPSHr + 0.5 m exactly; its flag is
\* false and the warning is there.
C4_Witness ==
    /\ Succeeded
    /\ \E i \in 1..Len(locals.exatos) :
           /\ FEq(locals.exatos[i].NPSHa_val, FAdd(request.NPSHr, MargemNPSH))
           /\ ~response.resultados_destinos[i].cavitation_ok
    /\ Count(response.warnings, "CRITICO", "Cavitacao") = 1

\* The levels of the suction and of the destination rec are in order as far
\* as the worst case goes: suction minimum <= nominal, destination nominal
\* <= maximum (a level that is absent is the nominal one).
Ordered(suc, rec) ==
    /\ FLe(Get(suc.nivel_min, NivelNominal(suc)), NivelNominal(suc))
    /\ FLe(NivelNominal(rec), Get(rec.nivel_max, NivelNominal(rec)))

C6_ImpeditiveNeverStops ==
    (Handled /\ Accepted /\ WellFormed(request) /\ locals.errors # <<>>
       /\ locals.raised # "IOError")
        => /\ response.code = 200
           /\ response.status = "warning"
           /\ response.errors = locals.errors
           /\ Len(response.resultados_destinos) = Len(request.recalque)
           /\ Len(response.recomendacoes) >= 1
           /\ locals.loops = 1 + Len(request.recalque)

\* C7: in a result, each rule has fired by its own threshold alone, once:
\* ALERT viscosity iff mu > 10 cP, IMPEDITIVE viscosity iff mu > 100 cP,
\* CRITICAL pressure iff the governing Hmt > 200 m, IMPEDITIVE pressure iff
\* it is > 300 m, MANDATORY multiple destinations iff more than one
\* destination is declared.
C7_RulesIndependent ==
    Succeeded =>
        /\ Count(response.warnings, "ALERTA", "Viscosidade")
               = IF FGt(response.viscosidade_cp, FInt(ViscAlerta)) THEN 1 ELSE 0
        /\ Count(response.errors, "IMPEDITIVO", "Viscosidade")
               = IF FGt(response.viscosidade_cp, FInt(ViscImpeditivo))
                 THEN 1 ELSE 0
        /\ Count(response.warnings, "CRITICO", "Pressao")
               = IF FGt(locals.Hmt, FInt(HmtCritico)) THEN 1 ELSE 0
        /\ Count(response.errors, "IMPEDITIVO", "Pressao")
               = IF FGt(locals.Hmt, FInt(HmtImpeditivo)) THEN 1 ELSE 0
        /\ Count(response.warnings, "OBRIGATORIO", "Sistema")
               = IF Len(request.recalque) > 1 THEN 1 ELSE 0
        /\ Len(response.errors)
               = Count(response.errors, "IMPEDITIVO", "Viscosidade")
                   + Count(response.errors, "IMPEDITIVO", "Pressao")

\* C7 witness: 15 cP and a governing Hmt of 300 m exactly, one destination:
\* the viscosity warning and the pressure warning, and no error.
C7_Witness ==
    /\ Succeeded
    /\ FEq(response.viscosidade_cp, FInt(15))
    /\ FEq(locals.Hmt, FInt(HmtImpeditivo))
    /\ Len(request.recalque) = 1
    /\ Count(response.warnings, "ALERTA", "Viscosidade") = 1
    /\ Count(response.warnings, "CRITICO", "Pressao") = 1
    /\ response.errors = <<>>

(***************************************************************************)
(* Properties of the pure functions, checked under SpecVapor and           *)
(* SpecFriction.                                                           *)
(***************************************************************************)
\* The call of the function fn has returned.
Returned(fn) == call.fn = fn /\ call.state = "returned"

\* The calibration point below a temperature strictly inside the table (the
\* lower one when the temperature is itself a calibration point), as an
\* index of PRESSAO_VAPOR_AGUA.
Bracket(temp) ==
    CHOOSE i \in 1..(Len(PRESSAO_VAPOR_AGUA) - 1) :
        FLt(FInt(temps(i)), temp) /\ FLe(temp, FInt(temps(i + 1)))

\* Two floats are equal to a relative error of 2^-40.
Close(a, b) ==
    FLe(FAbs(FSub(a, b)), FScale(FMax(FAbs(a), FAbs(b)), -40))

\* The step between two temperatures compared for monotonicity, 0.1 degC.
TempStep == FDec(1, 10)

\* C8: get_pressao_vapor returns 611 Pa for every temperature <= 0, 101325 Pa
\* for every temperature >= 100, and strictly between them the linear
\* interpolation of the two calibration points 5 degrees apart that bracket
\* the temperature (also in its weighted form, to float rounding), a value
\* between those of the two points; the value never decreases when the
\* temperature rises.
C8_VaporClampedInterpolated ==
    Returned("get_pressao_vapor") =>
        /\ FLe(call.temp, FZero) => FEq(result, FInt(611))
        /\ FGe(call.temp, FInt(100)) => FEq(result, FInt(101325))
        /\ (FGt(call.temp, FZero) /\ FLt(call.temp, FInt(100))) =>
               /\ FEq(result, Interpolate(call.temp, Bracket(call.temp)))
               /\ Close(FMul(result,
                             FInt(temps(Bracket(call.temp) + 1)
                                      - temps(Bracket(call.temp)))),
                        FAdd(FMul(FInt(PRESSAO_VAPOR_AGUA[Bracket(call.temp)]),
                                  FSub(FInt(temps(Bracket(call.temp) + 1)),
                                       call.temp)),
                             FMul(FInt(PRESSAO_VAPOR_AGUA[Bracket(call.temp) + 1]),
                                  FSub(call.temp,
                                       FInt(temps(Bracket(call.temp)))))))
               /\ FLe(FInt(PRESSAO_VAPOR_AGUA[Bracket(call.temp)]), result)
               /\ FLe(result, FInt(PRESSAO_VAPOR_AGUA[Bracket(call.temp) + 1]))
        /\ FLe(get_pressao_vapor(FSub(call.temp, TempStep)), result)
        /\ FLe(result, get_pressao_vapor(FAdd(call.temp, TempStep)))

\* C8 witness: 22.5 degC, halfway between the points of 20 and 25 degC, gave
\* the mean of 2338 Pa and 3169 Pa.
C8_Witness ==
    /\ Returned("get_pressao_vapor")
    /\ FEq(call.temp, FDec(225, 10))
    /\ FEq(result, FDec(27535, 10))

\* C9: friction_factor returns the laminar value 64/Re (Re floored at a tiny
\* epsilon) for every Reynolds number below 2300, and the roughness-based
\* formula only from 2300 on.  The code's boundary is 2000.
C9_LaminarBelow2300 ==
    Returned("friction_factor") =>
        /\ FLt(call.Re, FInt(2300)) =>
               FEq(result, FDiv(FInt(64), FMax(call.Re, ReFloor)))
        /\ FGe(call.Re, FInt(2300)) =>
               FEq(result, SwameeJain(call.Re, call.D, call.material))

\* The tolerance of the comparison of two friction factors, 1e-6.
FrictionTolerance == FDec(1, 10^6)

\* C10: a turbulent friction factor (Re >= 2300) is the one the iterative
\* Colebrook-White policy gives (f0 = 0.02, at most 200 iterations, the
\* explicit formula as the fallback), to within 1e-6.  The code has the
\* explicit formula only.
C10_IterativeByDefault ==
    (Returned("friction_factor") /\ FGe(call.Re, FInt(2300))) =>
        FLe(FAbs(FSub(result, ColebrookWhite(call.Re, call.D, call.material))),
            FrictionTolerance)

(***************************************************************************)
(* Properties of calculate_hmt_for_scenario, checked under SpecHmt.        *)
(***************************************************************************)
\* The two losses of the segment t alone at the flow q.
SegLossAlone(q, t, rho, mu) ==
    CHOOSE x \in { FAdd(row[2].hf, row[2].hl) :
                      row \in { r \in SegmentRows : r[1] = << q, t, rho, mu >> } } :
        TRUE

\* The sum of the losses of the segments from the i-th on, each taken alone.
RECURSIVE SumLosses(_, _, _, _, _)
SumLosses(q, trechos, rho, mu, i) ==
    IF i > Len(trechos) THEN FZero
    ELSE FAdd(SegLossAlone(q, trechos[i], rho, mu),
              SumLosses(q, trechos, rho, mu, i + 1))

\* The gauge pressure of a leg's reservoir.
Gauge(leg) ==
    IF leg.tipo_reservatorio = "pressurizado" THEN leg.pressao_manometrica
    ELSE FZero

\* The pressure-head difference plus the level difference of a call.
StaticHead(c) ==
    FAdd(FDiv(FSub(Gauge(c.data.recalque[c.destino_idx]), Gauge(c.data.suc)),
              FMul(c.data.fluido.densidade, G)),
         FSub(c.nivel_rec, c.nivel_suc))

\* The orders a list can be put in.
Perms(l) ==
    { [i \in 1..Len(l) |-> l[p[i]]] :
          p \in { f \in [1..Len(l) -> 1..Len(l)] :
                      \A i, j \in 1..Len(l) : f[i] = f[j] => i = j } }

\* The orders of a list that may be absent.
OptPerms(opt) == IF opt = <<>> THEN { <<>> } ELSE { <<l>> : l \in Perms(opt[1]) }

\* The body data with the segments of the suction and of the destination idx
\* replaced.
WithTrechos(data, idx, st, rt) ==
    [data EXCEPT !.suc.trechos = st, !.recalque[idx].trechos = rt]

\* C11: for Q > 0 calculate_hmt_for_scenario returns the pressure-head
\* difference plus the level difference plus the sum of the losses of every
\* segment of the two legs, and returns the same for every order of the
\* segments within each leg; for Q <= 0 it returns 0.  The sums are sums of
\* floats, so "the same" is to float rounding: three segments summed in
\* another order can differ in the last place.  The code divides L by D
\* (C3), so with a segment of D = 0 the function raises and returns nothing.
C11_HmtAdditive ==
    Returned("calculate_hmt_for_scenario") =>
        /\ FLe(call.q_val, FZero) => result = [raised |-> FALSE, value |-> FZero]
        /\ FGt(call.q_val, FZero) =>
               /\ ~result.raised
               /\ Close(result.value,
                        FAdd(StaticHead(call),
                             FAdd(SumLosses(call.q_val,
                                            Get(call.data.suc.trechos, <<>>),
                                            call.data.fluido.densidade,
                                            call.data.fluido.viscosidade, 1),
                                  SumLosses(call.q_val,
                                            call.data.recalque[call.destino_idx].trechos,
                                            call.data.fluido.densidade,
                                            call.data.fluido.viscosidade, 1))))
               /\ \A st \in OptPerms(call.data.suc.trechos) :
                      \A rt \in Perms(call.data.recalque[call.destino_idx].trechos) :
                          Close(calculate_hmt_for_scenario(
                                    call.q_val,
                                    WithTrechos(call.data, call.destino_idx, st, rt),
                                    call.data.fluido, call.nivel_suc,
                                    call.nivel_rec, call.destino_idx).value,
                                result.value)

(***************************************************************************)
(* Further properties of the handler, checked under Spec.                  *)
(***************************************************************************)
\* C12: with Q > 0 the handler returns a result only when a destination is
\* declared and the suction's "trechos" is absent or not empty.  With no
\* destination (min() of no result), or with an empty suction "trechos" and
\* a destination (index 0 of an empty list), the calculation raises and the
\* response is the generic failure: status "error", HTTP 500, no result.
C12_SuccessNeedsDestinationAndSuction ==
    /\ (Succeeded /\ Accepted) => WellFormed(request)
    /\ (Handled /\ Accepted /\ ~WellFormed(request)) =>
           /\ response.status = "error"
           /\ response.code = 500
           /\ DOMAIN response = { "status", "code", "message" }
           /\ locals.raised \in { "ValueError", "IndexError", "ZeroDivisionError" }
           /\ (Len(request.recalque) = 0 /\ locals.raised # "ZeroDivisionError")
                  => locals.raised = "ValueError"
           /\ (Len(request.recalque) >= 1 /\ locals.raised # "ZeroDivisionError")
                  => locals.raised = "IndexError"

\* C12 witness: water at 0.02 m3/s, a destination, a suction with an empty
\* "trechos": the three heads of the destination were computed, then the
\* handler raised IndexError and answered HTTP 500.
C12_Witness ==
    /\ Handled
    /\ Accepted
    /\ request.suc.trechos = << <<>> >>
    /\ Len(request.recalque) >= 1
    /\ locals.raised = "IndexError"
    /\ locals.hmt_calls = 3
    /\ response = Failure(500, "IndexError")

\* The levels of a leg as the request gives them.
LvNom(leg) == Get(leg.nivel_nominal, Get(leg.nivel_alt, FZero))

LvMin(leg) == Get(leg.nivel_min, LvNom(leg))

LvMax(leg) == Get(leg.nivel_max, LvNom(leg))

\* min <= nominal <= max.
LevelsInOrder(leg) ==
    FLe(LvMin(leg), LvNom(leg)) /\ FLe(LvNom(leg), LvMax(leg))

\* Two lengths are equal to float rounding: within 1e-9 m.
Near(a, b) == FLe(FAbs(FSub(a, b)), FDec(1, 10^9))

\* The two differences of the heads x are the level terms of suc and rec.
LevelTerms(x, suc, rec) ==
    /\ Near(FSub(x.Hmt_pior, x.Hmt_nom),
            FAdd(FSub(LvMax(rec), LvNom(rec)), FSub(LvNom(suc), LvMin(suc))))
    /\ Near(FSub(x.Hmt_nom, x.Hmt_melhor),
            FAdd(FSub(LvNom(rec), LvMin(rec)), FSub(LvMax(suc), LvNom(suc))))

\* The pressure-head difference of the destination rec, P_rec - P_suc over
\* rho * g.
PressureHead(data, rec) ==
    FDiv(FSub(ReservoirPressure(rec, FInt(Atm)),
              ReservoirPressure(data.suc, FInt(Atm))),
         FMul(data.fluido.densidade, G))

\* The largest magnitude among the three heads x, the levels of suc and rec
\* and the pressure head dP: the size of the numbers the heads are summed
\* from and rounded to.
Magnitude(x, suc, rec, dP) ==
    FMax(FMax(FMax(FAbs(x.Hmt_pior), FAbs(x.Hmt_nom)),
              FMax(FAbs(x.Hmt_melhor), FAbs(dP))),
         FMax(FMax(FAbs(LvMin(suc)), FMax(FAbs(LvNom(suc)), FAbs(LvMax(suc)))),
              FMax(FAbs(LvMin(rec)), FMax(FAbs(LvNom(rec)), FAbs(LvMax(rec))))))

\* Two lengths are equal to the rounding of floats of the size m: within
\* m * 2^-48, sixteen units in the last place of m.
NearAt(a, b, m) == FLe(FAbs(FSub(a, b)), FScale(m, -48))

\* The two differences of the heads x are the level terms of suc and rec to
\* the rounding of floats of the size m.
LevelTermsAt(x, suc, rec, m) ==
    /\ NearAt(FSub(x.Hmt_pior, x.Hmt_nom),
              FAdd(FSub(LvMax(rec), LvNom(rec)), FSub(LvNom(suc), LvMin(suc))), m)
    /\ NearAt(FSub(x.Hmt_nom, x.Hmt_melhor),
              FAdd(FSub(LvNom(rec), LvMin(rec)), FSub(LvMax(suc), LvNom(suc))), m)

\* With the levels in order the heads are in order; with no minimum and no
\* maximum given the heads are equal.
HeadsInOrder(x, suc, rec) ==
    /\ (LevelsInOrder(suc) /\ LevelsInOrder(rec))
           => (FGe(x.Hmt_pior, x.Hmt_nom) /\ FGe(x.Hmt_nom, x.Hmt_melhor))
    /\ (suc.nivel_min = <<>> /\ suc.nivel_max = <<>>
          /\ rec.nivel_min = <<>> /\ rec.nivel_max = <<>>)
           => (FEq(x.Hmt_pior, x.Hmt_nom) /\ FEq(x.Hmt_nom, x.Hmt_melhor))

\* C13 as stated: for every destination and Q > 0 the three heads differ by
\* the level terms only, Hmt_pior - Hmt_nom = (rec_max - rec_nom) + (suc_nom
\* - suc_min) and Hmt_nom - Hmt_melhor = (rec_nom - rec_min) + (suc_max -
\* suc_nom), here to 1e-9 m; so they are in order when the levels are, and
\* equal when no minimum or maximum is given; stated of the results
\* returned.  The heads are floats: with mu <= 0 the losses are of the order
\* of 1e16 m, where two floats next to each other are 2 m apart, and the
\* heads differ by 2.0 m where the level terms are 2.1 m and 1.1 m.
C13_HeadsDifferByLevels ==
    Succeeded =>
        \A i \in 1..Len(locals.exatos) :
            /\ LevelTerms(locals.exatos[i], request.suc, request.recalque[i])
            /\ HeadsInOrder(locals.exatos[i], request.suc, request.recalque[i])

\* C13 amended: the differences of the three heads are the level terms to
\* the rounding of the floats involved, that is to within 2^-48 of the
\* largest magnitude among the three heads, the levels and the pressure
\* head; the order of the heads and their equality hold as stated; all of
\* it for every destination, whether or not the result is returned.
C13_HeadsDifferByLevelsRounded ==
    (Handled /\ Accepted) =>
        \A i \in 1..Len(locals.exatos) :
            /\ LevelTermsAt(locals.exatos[i], request.suc, request.recalque[i],
                            Magnitude(locals.exatos[i], request.suc,
                                      request.recalque[i],
                                      PressureHead(request, request.recalque[i])))
            /\ HeadsInOrder(locals.exatos[i], request.suc, request.recalque[i])

\* C13 witness: a result with heads over 1e9 m (mu = 0) for suction levels
\* in order and apart: the three heads are in strict order, and their
\* differences are not the level terms to 1e-9 m, but are to the rounding of
\* floats of that size.
C13_Witness ==
    /\ Succeeded
    /\ \E i \in 1..Len(locals.exatos) :
           /\ FGt(locals.exatos[i].Hmt_melhor, FInt(10^9))
           /\ FLt(LvMin(request.suc), LvNom(request.suc))
           /\ FLt(LvNom(request.suc), LvMax(request.suc))
           /\ LevelsInOrder(request.recalque[i])
           /\ FGt(locals.exatos[i].Hmt_pior, locals.exatos[i].Hmt_nom)
           /\ FGt(locals.exatos[i].Hmt_nom, locals.exatos[i].Hmt_melhor)
           /\ ~LevelTerms(locals.exatos[i], request.suc, request.recalque[i])
           /\ LevelTermsAt(locals.exatos[i], request.suc, request.recalque[i],
                           locals.exatos[i].Hmt_pior)
====
